---- MODULE Spec2Model ----
(***************************************************************************)
(* A model of the adobe-swatch-exchange codec: create_ase (the encoder),   *)
(* read_ase (the decoder's block loop and its GroupHold state machine),    *)
(* and the parsers they call (Group::parse, ColorBlock::parse,             *)
(* ColorValue::try_from, BlockType::try_from, ColorType::try_from).        *)
(* Files are sequences of bytes; every field is written and read byte by   *)
(* byte as the code does.                                                  *)
(***************************************************************************)
EXTENDS Integers, Sequences, FiniteSets, TLC

(***************************************************************************)
(* Bounds of the model.                                                    *)
(***************************************************************************)
\* groups plus colours (top-level and embedded) handed to create_ase
MaxSize == 3
\* largest block count a crafted header declares
MaxCount == 3

(***************************************************************************)
(* Bytes and big-endian integers (buffer.rs, u16/u32::from_be_bytes).      *)
(***************************************************************************)
U16Mod == 2^16

\* n.to_be_bytes() for a u16
BE16(n) == << (n \div 256) % 256, n % 256 >>

\* n.to_be_bytes() for a u32 (and for the bit pattern of an f32)
BE32(n) == << (n \div 16777216) % 256, (n \div 65536) % 256, (n \div 256) % 256, n % 256 >>

\* u16::from_be_bytes
FromBE16(b) == b[1] * 256 + b[2]

\* u32::from_be_bytes
FromBE32(b) == b[1] * 16777216 + b[2] * 65536 + b[3] * 256 + b[4]

\* slice.get(a..b) with 0-based half-open bounds: None when a > b or b > len
GetRange(bytes, a, b) ==
  IF a <= b /\ b <= Len(bytes)
    THEN [some |-> TRUE, v |-> SubSeq(bytes, a + 1, b)]
    ELSE [some |-> FALSE, v |-> << >>]

\* slice.get(a..): None when a > len
GetFrom(bytes, a) ==
  IF a <= Len(bytes)
    THEN [some |-> TRUE, v |-> SubSeq(bytes, a + 1, Len(bytes))]
    ELSE [some |-> FALSE, v |-> << >>]

\* Buffer::write_slice
write_slice(buf, src) == buf \o src

\* Buffer::write_u32
write_u32(buf, n) == write_slice(buf, BE32(n))

\* Buffer::write_f32: an f32 is carried as its 32-bit pattern
write_f32(buf, n) == write_slice(buf, BE32(n))

\* Buffer::write_u16
write_u16(buf, n) == write_slice(buf, BE16(n))

(***************************************************************************)
(* Strings: a Rust String is a sequence of Unicode scalar values.          *)
(***************************************************************************)
\* char::len_utf8
LenUtf8(c) == IF c < 128 THEN 1 ELSE IF c < 2048 THEN 2 ELSE IF c < 65536 THEN 3 ELSE 4

\* str::len(): the length of the UTF-8 encoding in bytes, the sum of len_utf8
\* over the characters (written without recursion, names can be long)
StrLen(s) ==
  Cardinality({i \in 1..Len(s) : LenUtf8(s[i]) = 1})
    + 2 * Cardinality({i \in 1..Len(s) : LenUtf8(s[i]) = 2})
    + 3 * Cardinality({i \in 1..Len(s) : LenUtf8(s[i]) = 3})
    + 4 * Cardinality({i \in 1..Len(s) : LenUtf8(s[i]) = 4})

\* char::encode_utf16
CharUtf16(c) ==
  IF c < 65536 THEN << c >>
  ELSE << 55296 + ((c - 65536) \div 1024), 56320 + ((c - 65536) % 1024) >>

\* str::encode_utf16
RECURSIVE encode_utf16(_)
encode_utf16(s) == IF s = << >> THEN << >> ELSE CharUtf16(Head(s)) \o encode_utf16(Tail(s))

IsHighSurrogate(u) == u >= 55296 /\ u <= 56319
IsLowSurrogate(u) == u >= 56320 /\ u <= 57343

\* String::from_utf16: Err on an unpaired surrogate
RECURSIVE from_utf16(_)
from_utf16(units) ==
  IF units = << >> THEN [ok |-> TRUE, s |-> << >>]
  ELSE LET u == Head(units) IN
    IF IsHighSurrogate(u)
      THEN IF Len(units) >= 2 /\ IsLowSurrogate(units[2])
             THEN LET rest == from_utf16(Tail(Tail(units))) IN
                    [ok |-> rest.ok,
                     s |-> << 65536 + (u - 55296) * 1024 + (units[2] - 56320) >> \o rest.s]
             ELSE [ok |-> FALSE, s |-> << >>]
    ELSE IF IsLowSurrogate(u) THEN [ok |-> FALSE, s |-> << >>]
    ELSE LET rest == from_utf16(Tail(units)) IN [ok |-> rest.ok, s |-> << u >> \o rest.s]

\* Buffer::write_null_terminated_utf_16_str
RECURSIVE write_u16_all(_, _)
write_u16_all(buf, units) ==
  IF units = << >> THEN buf ELSE write_u16_all(write_u16(buf, Head(units)), Tail(units))

write_null_terminated_utf_16_str(buf, src) == write_u16(write_u16_all(buf, encode_utf16(src)), 0)

\* chunks_exact(2).map(u16::from_be_bytes): the bytes as big-endian u16 units
RECURSIVE Units(_)
Units(bytes) ==
  IF Len(bytes) < 2 THEN << >>
  ELSE << FromBE16(bytes) >> \o Units(Tail(Tail(bytes)))

(***************************************************************************)
(* Errors (error.rs) and results.                                          *)
(***************************************************************************)
ErrIo == "Io"
ErrFileSignature == "Invalid(FileSignature)"
ErrFileVersion == "Invalid(FileVersion)"
ErrGroupEnd == "Invalid(GroupEnd)"
ErrColorFormat == "ColorFormat"
ErrUTF16 == "UTF16Error"
ErrColorType == "ColorTypeError"
ErrBlockType == "BlockTypeError"
ErrInputDataParse == "InputDataParseError"
\* the bare variant named at block_type.rs:22
ErrInvalid == "Invalid"

Ok(v) == [ok |-> TRUE, err |-> "", val |-> v]
Err(e) == [ok |-> FALSE, err |-> e, val |-> << >>]

\* Option::ok_or
ok_or(opt, e) == IF opt.some THEN Ok(opt.v) ELSE Err(e)

\* the ? operator: the error returned at once, or the rest of the function on the value
Try(r, Rest(_)) == IF r.ok THEN Rest(r.val) ELSE r

\* let Ok(v) = r else { otherwise }
LetElse(r, Rest(_), otherwise) == IF r.ok THEN Rest(r.val) ELSE otherwise

(***************************************************************************)
(* BlockType (block_type.rs) and ColorType (color_type.rs).                *)
(***************************************************************************)
GroupStart == "GroupStart"
GroupEnd == "GroupEnd"
ColorEntry == "ColorEntry"

\* BlockType as u16
BlockTypeTag(bt) ==
  CASE bt = GroupStart -> 49153
    [] bt = GroupEnd -> 49154
    [] bt = ColorEntry -> 1

\* impl TryFrom<u16> for BlockType
BlockType_try_from(value) ==
  CASE value = 1 -> Ok(ColorEntry)
    [] value = 49153 -> Ok(GroupStart)
    [] value = 49154 -> Ok(GroupEnd)
    [] OTHER -> Err(ErrInvalid)

\* ColorType as u16
ColorTypeCode(ct) ==
  CASE ct = "Global" -> 0
    [] ct = "Spot" -> 1
    [] ct = "Normal" -> 2

\* a variant that takes every other code for the default, Normal
ColorType_try_from_default(value) ==
  CASE value = 0 -> Ok("Global")
    [] value = 1 -> Ok("Spot")
    [] OTHER -> Ok("Normal")

\* impl TryFrom<&u8> for ColorType
ColorType_try_from(value) ==
  CASE value = 0 -> Ok("Global")
    [] value = 1 -> Ok("Spot")
    [] value = 2 -> Ok("Normal")
    [] OTHER -> Err(ErrColorType)

(***************************************************************************)
(* ColorValue (color_value.rs).  A channel is the bit pattern of its f32.  *)
(***************************************************************************)
TagCMYK == << 67, 77, 89, 75 >>
TagRGB == << 82, 71, 66, 32 >>
TagLAB == << 76, 65, 66, 32 >>
TagGray == << 71, 114, 97, 121 >>

\* the f32 quotient l / 100.0, on the L* values the model writes
\* (50.0 -> 0.5, 3.75 -> 0.0375)
F32Div100(bits) ==
  CASE bits = 1112014848 -> 1056964608
    [] bits = 1081081856 -> 1024039322

\* the f32 product l * 100.0, on the stored values the model reads
\* (0.5 -> 50.0, 0.0375 -> 3.7500002)
F32Mul100(bits) ==
  CASE bits = 1056964608 -> 1112014848
    [] bits = 1024039322 -> 1081081857

Cmyk(c, m, y, k) == [kind |-> "Cmyk", ch |-> << c, m, y, k >>]
Rgb(r, g, b) == [kind |-> "Rgb", ch |-> << r, g, b >>]
Lab(l, a, b) == [kind |-> "Lab", ch |-> << l, a, b >>]
Gray(v) == [kind |-> "Gray", ch |-> << v >>]

\* ColorValue::get_type
get_type(color) ==
  CASE color.kind = "Cmyk" -> TagCMYK
    [] color.kind = "Rgb" -> TagRGB
    [] color.kind = "Lab" -> TagLAB
    [] color.kind = "Gray" -> TagGray

\* ColorValue::write_values
write_values(color, buf) ==
  CASE color.kind = "Cmyk" ->
         write_f32(write_f32(write_f32(write_f32(buf, color.ch[1]), color.ch[2]), color.ch[3]), color.ch[4])
    [] color.kind = "Rgb" ->
         write_f32(write_f32(write_f32(buf, color.ch[1]), color.ch[2]), color.ch[3])
    [] color.kind = "Lab" ->
         write_f32(write_f32(write_f32(buf, F32Div100(color.ch[1])), color.ch[2]), color.ch[3])
    [] color.kind = "Gray" -> write_f32(buf, color.ch[1])

\* ColorValue::calculate_length
ColorValue_calculate_length(color) ==
  CASE color.kind = "Cmyk" -> 16
    [] color.kind \in {"Rgb", "Lab"} -> 12
    [] color.kind = "Gray" -> 4

\* the closure f32_from_bytes of ColorValue::try_from
f32_from_bytes(value, a, b) == Try(ok_or(GetRange(value, a, b), ErrInputDataParse), LAMBDA data : Ok(FromBE32(data)))

\* impl TryFrom<&[u8]> for ColorValue: the arm of the 4-byte tag `tag`
ColorValueArm(value, tag) ==
  CASE tag = TagCMYK ->
         Try(f32_from_bytes(value, 4, 8), LAMBDA cyan :
         Try(f32_from_bytes(value, 8, 12), LAMBDA magenta :
         Try(f32_from_bytes(value, 12, 16), LAMBDA yellow :
         Try(f32_from_bytes(value, 16, 20), LAMBDA black :
         Ok(Cmyk(cyan, magenta, yellow, black))))))
    [] tag = TagRGB ->
         Try(f32_from_bytes(value, 4, 8), LAMBDA red :
         Try(f32_from_bytes(value, 8, 12), LAMBDA green :
         Try(f32_from_bytes(value, 12, 16), LAMBDA blue :
         Ok(Rgb(red, green, blue)))))
    [] tag = TagLAB ->
         Try(f32_from_bytes(value, 4, 8), LAMBDA l :
         Try(f32_from_bytes(value, 8, 12), LAMBDA a :
         Try(f32_from_bytes(value, 12, 16), LAMBDA b :
         Ok(Lab(F32Mul100(l), a, b)))))
    [] tag = TagGray ->
         Try(f32_from_bytes(value, 4, 8), LAMBDA v : Ok(Gray(v)))
    [] OTHER -> Err(ErrColorFormat)

\* a variant of ColorValue::try_from that reports a slice shorter than a tag as
\* an unknown colour format
ColorValue_try_from_short_tag(value) ==
  Try(ok_or(GetRange(value, 0, 4), ErrColorFormat), LAMBDA tag : ColorValueArm(value, tag))

\* impl TryFrom<&[u8]> for ColorValue
ColorValue_try_from(value) ==
  Try(ok_or(GetRange(value, 0, 4), ErrInputDataParse), LAMBDA tag : ColorValueArm(value, tag))

(***************************************************************************)
(* ColorBlock (color_block.rs).                                            *)
(***************************************************************************)
\* ColorBlock::new
ColorBlock(name, color, color_type) == [name |-> name, color |-> color, color_type |-> color_type]

\* ColorBlock::calculate_length (u32; every length of the model is far below 2^32)
ColorBlock_calculate_length(block) ==
  2 + StrLen(block.name) * 2 + 2 + 4 + ColorValue_calculate_length(block.color) + 2

\* a + b on u16: the wrapped sum, and whether the exact sum leaves the width
\* (a build with overflow checks panics there, a build without them wraps)
U16Add(a, b) == [val |-> (a + b) % U16Mod, overflow |-> a + b >= U16Mod]

\* the name-length field: self.name.len() as u16 + 1
NameLengthField(name) == U16Add(StrLen(name) % U16Mod, 1).val

\* ColorBlock::write
ColorBlock_write(block, buf) ==
  LET b1 == write_u16(buf, BlockTypeTag(ColorEntry))
      b2 == write_u32(b1, ColorBlock_calculate_length(block))
      b3 == write_u16(b2, NameLengthField(block.name))
      b4 == write_null_terminated_utf_16_str(b3, block.name)
      b5 == write_slice(b4, get_type(block.color))
      b6 == write_values(block.color, b5)
  IN write_u16(b6, ColorTypeCode(block.color_type))

\* String::from_utf16(..)? with its From<FromUtf16Error>
Utf16Name(units) == IF from_utf16(units).ok THEN Ok(from_utf16(units).s) ELSE Err(ErrUTF16)

\* a variant that decodes the name as String::from_utf16_lossy would
ParseNameLossy(bytes) ==
  Try(ok_or(GetRange(bytes, 0, 2), ErrInputDataParse), LAMBDA nl :
  Try(ok_or(GetRange(bytes, 2, FromBE16(nl) * 2), ErrInputDataParse), LAMBDA name_bytes :
  Ok([name |-> IF from_utf16(Units(name_bytes)).ok THEN from_utf16(Units(name_bytes)).s
               ELSE << 65533 >>,
      name_length |-> FromBE16(nl)])))

\* the name prefix shared by ColorBlock::parse and Group::parse:
\* the u16 name length, then bytes 2 .. 2 * name_length as UTF-16 units
ParseName(bytes) ==
  Try(ok_or(GetRange(bytes, 0, 2), ErrInputDataParse), LAMBDA nl :
  Try(ok_or(GetRange(bytes, 2, FromBE16(nl) * 2), ErrInputDataParse), LAMBDA name_bytes :
  Try(Utf16Name(Units(name_bytes)), LAMBDA name :
  Ok([name |-> name, name_length |-> FromBE16(nl)]))))

\* bytes.get(i) of a single byte
GetByte(bytes, i) ==
  IF i < Len(bytes) THEN [some |-> TRUE, v |-> bytes[i + 1]] ELSE [some |-> FALSE, v |-> 0]

\* a variant that takes the colour type from the byte at color_type_start itself
ParseColorFirstByte(bytes, name, color_value_start) ==
  Try(ok_or(GetFrom(bytes, color_value_start), ErrInputDataParse), LAMBDA rest :
  Try(ColorValue_try_from(rest), LAMBDA color_value :
  Try(ok_or(GetByte(bytes, color_value_start + ColorValue_calculate_length(color_value) + 4),
            ErrInputDataParse), LAMBDA type_byte :
  Try(ColorType_try_from(type_byte), LAMBDA color_type :
  Ok(ColorBlock(name, color_value, color_type))))))

\* ColorBlock::parse from the colour value on (color_block.rs:84-98)
ParseColor(bytes, name, color_value_start) ==
  Try(ok_or(GetFrom(bytes, color_value_start), ErrInputDataParse), LAMBDA rest :
  Try(ColorValue_try_from(rest), LAMBDA color_value :
  Try(ok_or(GetByte(bytes, (color_value_start + ColorValue_calculate_length(color_value) + 4) + 1),
            ErrInputDataParse), LAMBDA type_byte :
  Try(ColorType_try_from(type_byte), LAMBDA color_type :
  Ok(ColorBlock(name, color_value, color_type))))))

\* ColorBlock::parse
ColorBlock_parse(bytes) ==
  Try(ParseName(bytes), LAMBDA nm : ParseColor(bytes, nm.name, nm.name_length * 2 + 2))

(***************************************************************************)
(* Group (group.rs).                                                       *)
(***************************************************************************)
\* Group::new
Group(name, blocks) == [name |-> name, blocks |-> blocks]

\* Group::default
GroupDefault == Group(<< >>, << >>)

\* the sum in Group::calculate_length: block.calculate_length() + 2 + 4 per block
RECURSIVE SumBlockLengths(_)
SumBlockLengths(blocks) ==
  IF blocks = << >> THEN 0
  ELSE (ColorBlock_calculate_length(Head(blocks)) + 2 + 4) + SumBlockLengths(Tail(blocks))

\* Group::calculate_length (u32; every length of the model is far below 2^32)
Group_calculate_length(group) ==
  2 + StrLen(group.name) * 2 + 2 + SumBlockLengths(group.blocks)

\* self.blocks.into_iter().for_each(|block| block.write(buf))
RECURSIVE write_blocks(_, _)
write_blocks(blocks, buf) ==
  IF blocks = << >> THEN buf
  ELSE write_blocks(Tail(blocks), ColorBlock_write(Head(blocks), buf))

\* Group::write
Group_write(group, buf) ==
  LET b1 == write_u16(buf, BlockTypeTag(GroupStart))
      b2 == write_u32(b1, Group_calculate_length(group))
      b3 == write_u16(b2, NameLengthField(group.name))
      b4 == write_null_terminated_utf_16_str(b3, group.name)
      b5 == write_blocks(group.blocks, b4)
  IN write_u16(b5, BlockTypeTag(GroupEnd))

\* a variant of the loop that returns the error of a colour block that does not decode
RECURSIVE GroupParseLoopStrict(_, _, _)
GroupParseLoopStrict(bytes, pointer, blocks) ==
  IF pointer >= Len(bytes) - 1 THEN Ok(blocks)
  ELSE
    Try(ok_or(GetRange(bytes, pointer, pointer + 2), ErrInputDataParse), LAMBDA tagb :
    Try(BlockType_try_from(FromBE16(tagb)), LAMBDA block_type :
      IF block_type # ColorEntry THEN Ok(blocks)
      ELSE
        Try(ok_or(GetRange(bytes, pointer + 2, pointer + 6), ErrInputDataParse), LAMBDA lenb :
        Try(ok_or(GetFrom(bytes, pointer + 6), ErrInputDataParse), LAMBDA rest :
        Try(ColorBlock_parse(rest),
            LAMBDA block : GroupParseLoopStrict(bytes, pointer + 6 + FromBE32(lenb),
                                                Append(blocks, block)))))))

\* a variant of the loop that decodes a colour from the declared length of bytes only
RECURSIVE GroupParseLoopSized(_, _, _)
GroupParseLoopSized(bytes, pointer, blocks) ==
  IF pointer >= Len(bytes) - 1 THEN Ok(blocks)
  ELSE
    Try(ok_or(GetRange(bytes, pointer, pointer + 2), ErrInputDataParse), LAMBDA tagb :
    Try(BlockType_try_from(FromBE16(tagb)), LAMBDA block_type :
      IF block_type # ColorEntry THEN Ok(blocks)
      ELSE
        Try(ok_or(GetRange(bytes, pointer + 2, pointer + 6), ErrInputDataParse), LAMBDA lenb :
        Try(ok_or(GetRange(bytes, pointer + 6, pointer + 6 + FromBE32(lenb)), ErrInputDataParse),
            LAMBDA rest :
        LetElse(ColorBlock_parse(rest),
                LAMBDA block : GroupParseLoopSized(bytes, pointer + 6 + FromBE32(lenb),
                                                   Append(blocks, block)),
                Ok(blocks))))))

\* the loop of Group::parse (group.rs:91-123), from `pointer` with `blocks` decoded so far
RECURSIVE GroupParseLoop(_, _, _)
GroupParseLoop(bytes, pointer, blocks) ==
  IF pointer >= Len(bytes) - 1 THEN Ok(blocks)
  ELSE
    Try(ok_or(GetRange(bytes, pointer, pointer + 2), ErrInputDataParse), LAMBDA tagb :
    Try(BlockType_try_from(FromBE16(tagb)), LAMBDA block_type :
      IF block_type # ColorEntry THEN Ok(blocks)
      ELSE
        Try(ok_or(GetRange(bytes, pointer + 2, pointer + 6), ErrInputDataParse), LAMBDA lenb :
        Try(ok_or(GetFrom(bytes, pointer + 6), ErrInputDataParse), LAMBDA rest :
        LetElse(ColorBlock_parse(rest),
                LAMBDA block : GroupParseLoop(bytes, pointer + 6 + FromBE32(lenb), Append(blocks, block)),
                Ok(blocks))))))

\* Group::parse
Group_parse(bytes) ==
  Try(ParseName(bytes), LAMBDA nm :
  Try(GroupParseLoop(bytes, nm.name_length * 2 + 2, << >>), LAMBDA blocks :
  Ok(Group(nm.name, blocks))))

(***************************************************************************)
(* create_ase (lib.rs).                                                    *)
(***************************************************************************)
FILE_SIGNATURE == << 65, 83, 69, 70 >>
VERSION == 65536

\* groups.into_iter().for_each(|group| group.write(&mut buf))
RECURSIVE write_groups(_, _)
write_groups(groups, buf) ==
  IF groups = << >> THEN buf
  ELSE write_groups(Tail(groups), Group_write(Head(groups), buf))

\* groups.iter().map(Group::calculate_length).sum()
RECURSIVE group_size(_)
group_size(groups) ==
  IF groups = << >> THEN 0 ELSE Group_calculate_length(Head(groups)) + group_size(Tail(groups))

\* colors.iter().map(ColorBlock::calculate_length).sum()
RECURSIVE color_size(_)
color_size(colors) ==
  IF colors = << >> THEN 0 ELSE ColorBlock_calculate_length(Head(colors)) + color_size(Tail(colors))

\* the capacity create_ase reserves (lib.rs:29)
Capacity(groups, colors) == 8 + group_size(groups) * 2 + color_size(colors)

\* a variant of create_ase that writes the top-level colours before the groups
create_ase_colors_first(groups, colors) ==
  LET b1 == write_slice(<< >>, FILE_SIGNATURE)
      b2 == write_u32(b1, VERSION)
      b3 == write_u32(b2, Len(groups) + Len(colors))
      b4 == write_blocks(colors, b3)
  IN write_groups(groups, b4)

\* create_ase
create_ase(groups, colors) ==
  LET b1 == write_slice(<< >>, FILE_SIGNATURE)
      b2 == write_u32(b1, VERSION)
      b3 == write_u32(b2, Len(groups) + Len(colors))
      b4 == write_groups(groups, b3)
  IN write_blocks(colors, b4)

(***************************************************************************)
(* read_ase (lib.rs): the decoder's locals as a record, one loop           *)
(* iteration as an operator on it.                                         *)
(***************************************************************************)
Empty == "Empty"
HoldingBuilding == "HoldingBuilding"
HoldingBuilt == "HoldingBuilt"

\* Read::read_exact on a source whose bytes are `src`, `pos` of them consumed
read_exact(src, pos, n) ==
  IF pos + n <= Len(src) THEN Ok(SubSeq(src, pos + 1, pos + n)) ELSE Err(ErrIo)

\* a variant of the locals that counts one block more than the header declares
LocalsOneMore(pos, number_of_blocks) ==
  [pos |-> pos, blocks_to_read |-> number_of_blocks + 1, skipped |-> 0, safe_to_skip |-> FALSE,
   group_hold |-> Empty, group_hold_value |-> GroupDefault,
   groups |-> << >>, color_blocks |-> << >>, last |-> "none", err |-> ""]

\* the locals of read_ase when the loop is first entered (lib.rs:79-91);
\* `last` names the branch the latest iteration took, `err` its error
Locals(pos, number_of_blocks) ==
  [pos |-> pos, blocks_to_read |-> number_of_blocks, skipped |-> 0, safe_to_skip |-> FALSE,
   group_hold |-> Empty, group_hold_value |-> GroupDefault,
   groups |-> << >>, color_blocks |-> << >>, last |-> "none", err |-> ""]

Fail(st, branch, e) == [st EXCEPT !.last = branch, !.err = e]

\* blocks_to_read -= 1 (u32)
Decrement(st) == [st EXCEPT !.blocks_to_read = @ - 1]

\* a variant of the GroupStart arm that lets a group start while another is held
GroupStartArmNested(st, parsed) ==
  IF ~parsed.ok THEN Fail(st, "group_start", parsed.err)
  ELSE IF parsed.val.blocks = << >>
    THEN Decrement([st EXCEPT !.group_hold = HoldingBuilding,
                              !.group_hold_value = parsed.val,
                              !.last = "group_start"])
    ELSE Decrement([st EXCEPT !.blocks_to_read = @ + 1,
                              !.group_hold = HoldingBuilt,
                              !.group_hold_value = parsed.val,
                              !.last = "group_start"])

\* a variant of the GroupStart arm that counts no block more for a group that
\* holds its colours
GroupStartArmNoExtra(st, parsed) ==
  IF ~parsed.ok THEN Fail(st, "group_start", parsed.err)
  ELSE IF st.group_hold # Empty THEN Fail(st, "group_start", ErrGroupEnd)
  ELSE Decrement([st EXCEPT !.group_hold = IF parsed.val.blocks = << >>
                                             THEN HoldingBuilding ELSE HoldingBuilt,
                            !.group_hold_value = parsed.val,
                            !.last = "group_start"])

\* the GroupStart arm (lib.rs:127-142); `parsed` is Group::parse(&block)
GroupStartArm(st, parsed) ==
  IF ~parsed.ok THEN Fail(st, "group_start", parsed.err)
  ELSE IF st.group_hold # Empty THEN Fail(st, "group_start", ErrGroupEnd)
  ELSE IF parsed.val.blocks = << >>
    THEN Decrement([st EXCEPT !.group_hold = HoldingBuilding,
                              !.group_hold_value = parsed.val,
                              !.last = "group_start"])
    ELSE Decrement([st EXCEPT !.blocks_to_read = @ + 1,
                              !.group_hold = HoldingBuilt,
                              !.group_hold_value = parsed.val,
                              !.last = "group_start"])

\* a variant of the GroupEnd arm that keeps the group it has pushed
GroupEndArmKeepsHold(st) ==
  IF st.group_hold \in {HoldingBuilding, HoldingBuilt}
    THEN Decrement([st EXCEPT !.groups = Append(@, st.group_hold_value),
                              !.group_hold = HoldingBuilding,
                              !.last = "group_end"])
    ELSE Fail(st, "group_end", ErrGroupEnd)

\* the GroupEnd arm (lib.rs:144-152)
GroupEndArm(st) ==
  IF st.group_hold \in {HoldingBuilding, HoldingBuilt}
    THEN Decrement([st EXCEPT !.groups = Append(@, st.group_hold_value),
                              !.group_hold = Empty,
                              !.last = "group_end"])
    ELSE Fail(st, "group_end", ErrGroupEnd)

\* a variant of the ColorEntry arm that puts every colour in the top-level list
ColorEntryArmTopLevel(st, parsed) ==
  IF ~parsed.ok THEN Fail(st, "color_entry", parsed.err)
  ELSE CASE st.group_hold \in {HoldingBuilding, Empty} ->
              Decrement([st EXCEPT !.color_blocks = Append(@, parsed.val),
                                   !.last = "color_entry"])
         [] st.group_hold = HoldingBuilt -> Fail(st, "color_entry", ErrGroupEnd)

\* a variant of the ColorEntry arm that passes over a colour block that does not decode
ColorEntryArmLenient(st, parsed) ==
  IF ~parsed.ok THEN Decrement([st EXCEPT !.last = "color_entry"])
  ELSE CASE st.group_hold = HoldingBuilding ->
              Decrement([st EXCEPT !.group_hold_value.blocks = Append(@, parsed.val),
                                   !.last = "color_entry"])
         [] st.group_hold = Empty ->
              Decrement([st EXCEPT !.color_blocks = Append(@, parsed.val),
                                   !.last = "color_entry"])
         [] st.group_hold = HoldingBuilt -> Fail(st, "color_entry", ErrGroupEnd)

\* the ColorEntry arm (lib.rs:153-162); `parsed` is ColorBlock::parse(&block)
ColorEntryArm(st, parsed) ==
  IF ~parsed.ok THEN Fail(st, "color_entry", parsed.err)
  ELSE CASE st.group_hold = HoldingBuilding ->
              Decrement([st EXCEPT !.group_hold_value.blocks = Append(@, parsed.val),
                                   !.last = "color_entry"])
         [] st.group_hold = Empty ->
              Decrement([st EXCEPT !.color_blocks = Append(@, parsed.val),
                                   !.last = "color_entry"])
         [] st.group_hold = HoldingBuilt -> Fail(st, "color_entry", ErrGroupEnd)

\* the payload of a block with a length field, then its arm (lib.rs:122-163)
Payload(st, block_type, block) ==
  IF ~block.ok THEN Fail(st, IF block_type = GroupStart THEN "group_start" ELSE "color_entry", ErrIo)
  ELSE IF block_type = GroupStart
    THEN GroupStartArm([st EXCEPT !.pos = @ + Len(block.val)], Group_parse(block.val))
    ELSE ColorEntryArm([st EXCEPT !.pos = @ + Len(block.val)], ColorBlock_parse(block.val))

\* a block with a length field: the length, then the payload (lib.rs:116-123)
SizedBlock(src, st, block_type, lenb) ==
  IF ~lenb.ok THEN Fail(st, IF block_type = GroupStart THEN "group_start" ELSE "color_entry", ErrIo)
  ELSE Payload([st EXCEPT !.pos = @ + 4, !.safe_to_skip = FALSE], block_type,
               read_exact(src, st.pos + 4, FromBE32(lenb.val)))

\* a variant of the iteration whose padding skip puts the zero word back
DispatchSkipInPlace(src, st, tagb) ==
  IF tagb = << 0, 0 >> /\ st.skipped < 2 /\ st.safe_to_skip
    THEN [st EXCEPT !.skipped = @ + 1, !.last = "skip"]
  ELSE IF ~BlockType_try_from(FromBE16(tagb)).ok
    THEN Fail([st EXCEPT !.pos = @ + 2], "unknown_tag", BlockType_try_from(FromBE16(tagb)).err)
  ELSE IF BlockType_try_from(FromBE16(tagb)).val # GroupEnd /\ st.group_hold = HoldingBuilt
    THEN Fail([st EXCEPT !.pos = @ + 2], "expect_group_end", ErrGroupEnd)
  ELSE IF BlockType_try_from(FromBE16(tagb)).val = GroupEnd
    THEN GroupEndArm([st EXCEPT !.pos = @ + 2, !.safe_to_skip = TRUE, !.skipped = 0])
  ELSE SizedBlock(src, [st EXCEPT !.pos = @ + 2], BlockType_try_from(FromBE16(tagb)).val,
                  read_exact(src, st.pos + 2, 4))

\* a variant of the iteration that passes over one zero word only
DispatchSkipOnce(src, st, tagb) ==
  IF tagb = << 0, 0 >> /\ st.skipped < 1 /\ st.safe_to_skip
    THEN [st EXCEPT !.pos = @ + 2, !.skipped = @ + 1, !.last = "skip"]
  ELSE IF ~BlockType_try_from(FromBE16(tagb)).ok
    THEN Fail([st EXCEPT !.pos = @ + 2], "unknown_tag", BlockType_try_from(FromBE16(tagb)).err)
  ELSE IF BlockType_try_from(FromBE16(tagb)).val # GroupEnd /\ st.group_hold = HoldingBuilt
    THEN Fail([st EXCEPT !.pos = @ + 2], "expect_group_end", ErrGroupEnd)
  ELSE IF BlockType_try_from(FromBE16(tagb)).val = GroupEnd
    THEN GroupEndArm([st EXCEPT !.pos = @ + 2, !.safe_to_skip = TRUE, !.skipped = 0])
  ELSE SizedBlock(src, [st EXCEPT !.pos = @ + 2], BlockType_try_from(FromBE16(tagb)).val,
                  read_exact(src, st.pos + 2, 4))

\* a variant of the iteration without the check of lib.rs:104-106: a block that
\* follows a built group is read in full and refused by its arm
DispatchNoHoldCheck(src, st, tagb) ==
  IF tagb = << 0, 0 >> /\ st.skipped < 2 /\ st.safe_to_skip
    THEN [st EXCEPT !.pos = @ + 2, !.skipped = @ + 1, !.last = "skip"]
  ELSE IF ~BlockType_try_from(FromBE16(tagb)).ok
    THEN Fail([st EXCEPT !.pos = @ + 2], "unknown_tag", BlockType_try_from(FromBE16(tagb)).err)
  ELSE IF BlockType_try_from(FromBE16(tagb)).val = GroupEnd
    THEN GroupEndArm([st EXCEPT !.pos = @ + 2, !.safe_to_skip = TRUE, !.skipped = 0])
  ELSE SizedBlock(src, [st EXCEPT !.pos = @ + 2], BlockType_try_from(FromBE16(tagb)).val,
                  read_exact(src, st.pos + 2, 4))

\* one iteration from the tag on (lib.rs:97-163); `tagb` is the 2 bytes read
Dispatch(src, st, tagb) ==
  IF tagb = << 0, 0 >> /\ st.skipped < 2 /\ st.safe_to_skip
    THEN [st EXCEPT !.pos = @ + 2, !.skipped = @ + 1, !.last = "skip"]
  ELSE IF ~BlockType_try_from(FromBE16(tagb)).ok
    THEN Fail([st EXCEPT !.pos = @ + 2], "unknown_tag", BlockType_try_from(FromBE16(tagb)).err)
  ELSE IF BlockType_try_from(FromBE16(tagb)).val # GroupEnd /\ st.group_hold = HoldingBuilt
    THEN Fail([st EXCEPT !.pos = @ + 2], "expect_group_end", ErrGroupEnd)
  ELSE IF BlockType_try_from(FromBE16(tagb)).val = GroupEnd
    THEN GroupEndArm([st EXCEPT !.pos = @ + 2, !.safe_to_skip = TRUE, !.skipped = 0])
  ELSE SizedBlock(src, [st EXCEPT !.pos = @ + 2], BlockType_try_from(FromBE16(tagb)).val,
                  read_exact(src, st.pos + 2, 4))

\* one iteration of `while blocks_to_read > 0` (lib.rs:93-166)
LoopIter(src, st) ==
  IF ~read_exact(src, st.pos, 2).ok THEN Fail(st, "tag_eof", ErrIo)
  ELSE Dispatch(src, st, read_exact(src, st.pos, 2).val)

\* what read_ase returns
Returned(ok, e, gs, cs) == [ok |-> ok, err |-> e, groups |-> gs, colors |-> cs]

\* a variant of the code after the loop that drops a group still being built
PostLoopNoPush(st) ==
  IF st.group_hold = HoldingBuilt THEN Returned(FALSE, ErrGroupEnd, << >>, << >>)
  ELSE Returned(TRUE, "", st.groups, st.color_blocks)

\* after the loop (lib.rs:168-178)
PostLoop(st) ==
  LET gs == IF st.group_hold = HoldingBuilding
              THEN Append(st.groups, st.group_hold_value) ELSE st.groups
  IN IF st.group_hold = HoldingBuilt THEN Returned(FALSE, ErrGroupEnd, << >>, << >>)
     ELSE Returned(TRUE, "", gs, st.color_blocks)

\* the header checks (lib.rs:64-77): the error, or the declared block count
ReadHeader(src) ==
  Try(read_exact(src, 0, 4), LAMBDA sig :
    IF sig # FILE_SIGNATURE THEN Err(ErrFileSignature)
    ELSE
      Try(read_exact(src, 4, 4), LAMBDA ver :
        IF ver # BE32(VERSION) THEN Err(ErrFileVersion)
        ELSE Try(read_exact(src, 8, 4), LAMBDA cnt : Ok(FromBE32(cnt)))))

\* the loop run to its end on a complete source
RECURSIVE RunLoop(_, _)
RunLoop(src, st) ==
  IF st.err # "" THEN Returned(FALSE, st.err, << >>, << >>)
  ELSE IF st.blocks_to_read > 0 THEN RunLoop(src, LoopIter(src, st))
  ELSE PostLoop(st)

\* read_ase on a complete source
\* the loop entered with the header's outcome `h`
AfterHeader(src, h) ==
  IF ~h.ok THEN Returned(FALSE, h.err, << >>, << >>) ELSE RunLoop(src, Locals(12, h.val))

read_ase(src) == AfterHeader(src, ReadHeader(src))

\* a u32 as its two 16-bit halves: u32::from_be_bytes (lib.rs:77) for the
\* counts that are no Int of the checker
U32(b) == [hi |-> FromBE16(SubSeq(b, 1, 2)), lo |-> FromBE16(SubSeq(b, 3, 4))]

\* u32::wrapping_add(c, 1): `+= 1` of a build without overflow checks
wrapping_add1(c) ==
  IF c.lo + 1 < U16Mod THEN [c EXCEPT !.lo = @ + 1] ELSE [hi |-> (c.hi + 1) % U16Mod, lo |-> 0]

\* u32::wrapping_sub(c, 1): `-= 1` of a build without overflow checks
wrapping_sub1(c) ==
  IF c.lo > 0 THEN [c EXCEPT !.lo = @ - 1]
  ELSE [hi |-> (c.hi + U16Mod - 1) % U16Mod, lo |-> U16Mod - 1]

\* what a call of read_ase ends with: its return value, or a panic, and
\* whether blocks_to_read went round the ends of u32
Ended(r, wrapped, panicked) ==
  [ok |-> r.ok /\ ~panicked, err |-> IF panicked THEN "panic" ELSE r.err,
   groups |-> r.groups, colors |-> r.colors, wrapped |-> wrapped, panicked |-> panicked]

\* the loop (lib.rs:93-166) with blocks_to_read kept in its width: `c` is the
\* counter, `checks` the overflow checks of the build, `w` whether the counter
\* has wrapped; the iteration itself is LoopIter, entered with a counter of 1
RECURSIVE RunLoopU32(_, _, _, _, _)
RunLoopU32(src, st, c, checks, w) ==
  IF c = U32(<< 0, 0, 0, 0 >>) THEN Ended(PostLoop(st), w, FALSE)
  ELSE LET n == LoopIter(src, [st EXCEPT !.blocks_to_read = 1]) IN
    IF n.err # "" THEN Ended(Returned(FALSE, n.err, << >>, << >>), w, FALSE)
    ELSE IF n.last = "skip" THEN RunLoopU32(src, n, c, checks, w)
    ELSE IF n.last = "group_start" /\ n.group_hold = HoldingBuilt
      THEN IF c # U32(<< 255, 255, 255, 255 >>) THEN RunLoopU32(src, n, c, checks, w)
           ELSE IF checks THEN Ended(Returned(FALSE, "", << >>, << >>), FALSE, TRUE)
           ELSE RunLoopU32(src, n, wrapping_sub1(wrapping_add1(c)), checks, TRUE)
    ELSE RunLoopU32(src, n, wrapping_sub1(c), checks, w)

\* read_ase on a complete source, the block count in its width
read_ase_u32(src, checks) ==
  IF Len(src) < 12 \/ ~ReadHeader(SubSeq(src, 1, 8) \o << 0, 0, 0, 0 >>).ok
    THEN Ended(read_ase(src), FALSE, FALSE)
  ELSE RunLoopU32(src, Locals(12, 1), U32(SubSeq(src, 9, 12)), checks, FALSE)

(***************************************************************************)
(* The inputs the model draws from.                                        *)
(***************************************************************************)
\* "name", Gray(0.5), Normal: the colour of the crate's examples and tests
cGray == ColorBlock(<< 110, 97, 109, 101 >>, Gray(1056964608), "Normal")
\* "", Rgb(0.5, 0.3, 0.1), Global
cRgb == ColorBlock(<< >>, Rgb(1056964608, 1050253722, 1036831949), "Global")
\* a name with a non-ASCII character (U+00E9), Cmyk(0.0, 1.0, 0.0, 0.5), Spot
cCmyk == ColorBlock(<< 233 >>, Cmyk(0, 1065353216, 0, 1056964608), "Spot")
\* "L", Lab(3.75, 0.0, 1.0), Normal
cLab == ColorBlock(<< 76 >>, Lab(1081081856, 0, 1065353216), "Normal")

EncColors == {cGray, cRgb, cCmyk, cLab}
GroupNames == {<< >>, << 103 >>, << 233 >>}

\* the groups of size s: one group and s - 1 colours in it
GroupsOfSize(s) == {Group(nm, b) : nm \in GroupNames, b \in [1..(s - 1) -> EncColors]}

\* the sequences of groups of total size m
RECURSIVE GroupSeqsOfSize(_)
GroupSeqsOfSize(m) ==
  IF m = 0 THEN {<< >>}
  ELSE UNION { {<< g >> \o rest : g \in GroupsOfSize(s), rest \in GroupSeqsOfSize(m - s)} : s \in 1..m }

\* every (groups, colors) of total size at most MaxSize
EncInputs ==
  UNION { {<< gs, cs >> : gs \in GroupSeqsOfSize(m), cs \in [1..k -> EncColors]} :
          << m, k >> \in {mk \in (0..MaxSize) \X (0..MaxSize) : mk[1] + mk[2] <= MaxSize} }

\* the name field (length and null-terminated UTF-16 units) as the encoder writes it
NameField(name) == write_null_terminated_utf_16_str(write_u16(<< >>, NameLengthField(name)), name)

\* a GroupStart block whose length covers the name only
NameOnlyGroupStart(name) ==
  write_slice(write_u32(write_u16(<< >>, BlockTypeTag(GroupStart)), Len(NameField(name))),
              NameField(name))

\* a GroupStart block as Group::write emits it, without the GroupEnd tag after it
BuiltGroupStart(group) ==
  LET b == Group_write(group, << >>) IN SubSeq(b, 1, Len(b) - 2)

StreamColors == {cGray, cRgb}
StreamGroupName == << 103 >>

\* what a source may yield next: whole blocks, stray words, and blocks cut
\* short by the end of the source (ends = TRUE)
Items ==
  {[bytes |-> ColorBlock_write(c, << >>), ends |-> FALSE] : c \in StreamColors}
  \cup {[bytes |-> NameOnlyGroupStart(StreamGroupName), ends |-> FALSE],
        [bytes |-> BuiltGroupStart(Group(StreamGroupName, << cGray >>)), ends |-> FALSE],
        [bytes |-> BE16(BlockTypeTag(GroupEnd)), ends |-> FALSE],
        [bytes |-> << 0, 0 >>, ends |-> FALSE],
        \* a tag that names no block type, as in it_returns_incorrect_block_type_error
        [bytes |-> << 0, 2 >> \o SubSeq(ColorBlock_write(cGray, << >>), 3, 28), ends |-> FALSE],
        \* a GroupStart with an empty payload
        [bytes |-> BE16(BlockTypeTag(GroupStart)) \o BE32(0), ends |-> FALSE],
        \* a ColorEntry or GroupStart tag and nothing after it
        [bytes |-> BE16(BlockTypeTag(ColorEntry)), ends |-> TRUE],
        [bytes |-> BE16(BlockTypeTag(GroupStart)), ends |-> TRUE],
        \* a ColorEntry whose payload is cut short
        [bytes |-> SubSeq(ColorBlock_write(cGray, << >>), 1, 20), ends |-> TRUE]}

\* the 12 header bytes for a signature, a version and a block count
Header(sig, ver, count) == write_u32(write_u32(write_slice(<< >>, sig), ver), count)

BadSignature == << 65, 80, 69, 70 >>
BadVersion == 16842752

\* complete headers, and headers cut short by the end of the source
Headers ==
  {[bytes |-> Header(sig, ver, n), ends |-> FALSE] :
     sig \in {FILE_SIGNATURE, BadSignature}, ver \in {VERSION, BadVersion}, n \in 0..MaxCount}
  \cup {[bytes |-> SubSeq(Header(sig, ver, 1), 1, k), ends |-> TRUE] :
     sig \in {FILE_SIGNATURE, BadSignature}, ver \in {VERSION, BadVersion}, k \in {2, 6, 10}}

(***************************************************************************)
(* The state machine: create_ase writes a file, or a source yields bytes,  *)
(* and read_ase reads them.                                                *)
(***************************************************************************)
VARIABLES
  origin,            \* "create_ase": the source is create_ase's output; "stream": crafted
  groups_in,         \* the arguments of create_ase
  colors_in,
  ase,               \* the bytes of the source known so far
  closed,            \* the source ends after them
  pc,                \* where read_ase is: create, signature, version, count, loop, done
  pos,               \* bytes read_ase has consumed
  blocks_to_read,
  skipped,
  safe_to_skip,
  group_hold,
  group_hold_value,
  groups,
  color_blocks,
  last,              \* the branch the latest loop iteration took
  result,            \* what read_ase returned (when pc = "done")
  group_ends,        \* history: the offsets just after the GroupEnd tags read so far
  group_starts       \* history: the offsets just after the GroupStart blocks read so far

vars == << origin, groups_in, colors_in, ase, closed, pc, pos, blocks_to_read, skipped,
           safe_to_skip, group_hold, group_hold_value, groups, color_blocks, last, result,
           group_ends, group_starts >>

\* the locals as the record the operators above work on
Cur ==
  [pos |-> pos, blocks_to_read |-> blocks_to_read, skipped |-> skipped,
   safe_to_skip |-> safe_to_skip, group_hold |-> group_hold,
   group_hold_value |-> group_hold_value, groups |-> groups,
   color_blocks |-> color_blocks, last |-> last, err |-> ""]

SetLocals(n) ==
  /\ pos' = n.pos
  /\ blocks_to_read' = n.blocks_to_read
  /\ skipped' = n.skipped
  /\ safe_to_skip' = n.safe_to_skip
  /\ group_hold' = n.group_hold
  /\ group_hold_value' = n.group_hold_value
  /\ groups' = n.groups
  /\ color_blocks' = n.color_blocks
  /\ last' = n.last

NotReturned == Returned(FALSE, "", << >>, << >>)

InitLocals ==
  /\ pos = 0
  /\ blocks_to_read = 0
  /\ skipped = 0
  /\ safe_to_skip = FALSE
  /\ group_hold = Empty
  /\ group_hold_value = GroupDefault
  /\ groups = << >>
  /\ color_blocks = << >>
  /\ last = "none"
  /\ result = NotReturned
  /\ group_ends = {}
  /\ group_starts = {}

Init ==
  /\ InitLocals
  /\ \/ /\ origin = "create_ase"
        /\ \E in \in EncInputs : groups_in = in[1] /\ colors_in = in[2]
        /\ ase = << >>
        /\ closed = TRUE
        /\ pc = "create"
     \/ /\ origin = "stream"
        /\ groups_in = << >>
        /\ colors_in = << >>
        /\ \E h \in Headers : ase = h.bytes /\ closed = h.ends
        /\ pc = "signature"

\* create_ase(groups, colors) writes the file read_ase then reads
CreateAse ==
  /\ pc = "create"
  /\ ase' = create_ase(groups_in, colors_in)
  /\ pc' = "signature"
  /\ UNCHANGED << origin, groups_in, colors_in, group_ends, group_starts, closed, pos, blocks_to_read, skipped,
                  safe_to_skip, group_hold, group_hold_value, groups, color_blocks, last, result >>

Return(r) ==
  /\ pc' = "done"
  /\ result' = r

\* a variant of the signature check that reads on after a mismatch
ReadSignatureUnchecked ==
  /\ pc = "signature"
  /\ LET sig == read_exact(ase, pos, 4) IN
       IF ~sig.ok THEN Return(Returned(FALSE, ErrIo, << >>, << >>)) /\ pos' = pos
       ELSE pc' = "version" /\ pos' = pos + 4 /\ result' = result
  /\ UNCHANGED << origin, groups_in, colors_in, group_ends, group_starts, ase, closed, blocks_to_read, skipped,
                  safe_to_skip, group_hold, group_hold_value, groups, color_blocks, last >>

\* lib.rs:65-68
ReadSignature ==
  /\ pc = "signature"
  /\ LET sig == read_exact(ase, pos, 4) IN
       IF ~sig.ok THEN Return(Returned(FALSE, ErrIo, << >>, << >>)) /\ pos' = pos
       ELSE IF sig.val # FILE_SIGNATURE
         THEN Return(Returned(FALSE, ErrFileSignature, << >>, << >>)) /\ pos' = pos + 4
         ELSE pc' = "version" /\ pos' = pos + 4 /\ result' = result
  /\ UNCHANGED << origin, groups_in, colors_in, group_ends, group_starts, ase, closed, blocks_to_read, skipped,
                  safe_to_skip, group_hold, group_hold_value, groups, color_blocks, last >>

\* lib.rs:71-74
ReadVersion ==
  /\ pc = "version"
  /\ LET ver == read_exact(ase, pos, 4) IN
       IF ~ver.ok THEN Return(Returned(FALSE, ErrIo, << >>, << >>)) /\ pos' = pos
       ELSE IF ver.val # BE32(VERSION)
         THEN Return(Returned(FALSE, ErrFileVersion, << >>, << >>)) /\ pos' = pos + 4
         ELSE pc' = "count" /\ pos' = pos + 4 /\ result' = result
  /\ UNCHANGED << origin, groups_in, colors_in, group_ends, group_starts, ase, closed, blocks_to_read, skipped,
                  safe_to_skip, group_hold, group_hold_value, groups, color_blocks, last >>

\* lib.rs:76-91
ReadBlockCount ==
  /\ pc = "count"
  /\ LET cnt == read_exact(ase, pos, 4) IN
       IF ~cnt.ok
         THEN /\ Return(Returned(FALSE, ErrIo, << >>, << >>))
              /\ UNCHANGED << pos, blocks_to_read, skipped, safe_to_skip, group_hold,
                              group_hold_value, groups, color_blocks, last >>
         ELSE /\ SetLocals(Locals(pos + 4, FromBE32(cnt.val)))
              /\ pc' = "loop"
              /\ result' = result
  /\ UNCHANGED << origin, groups_in, colors_in, ase, closed, group_ends, group_starts >>

\* the source has nothing unread and read_ase wants more
Starved == pc = "loop" /\ blocks_to_read > 0 /\ pos = Len(ase) /\ ~closed

\* the source yields its next bytes
SourceSupplies ==
  /\ Starved
  /\ \E it \in Items : ase' = ase \o it.bytes /\ closed' = it.ends
  /\ UNCHANGED << origin, groups_in, colors_in, group_ends, group_starts, pc, pos, blocks_to_read, skipped,
                  safe_to_skip, group_hold, group_hold_value, groups, color_blocks, last, result >>

\* the source ends
SourceEnds ==
  /\ Starved
  /\ closed' = TRUE
  /\ UNCHANGED << origin, groups_in, colors_in, group_ends, group_starts, ase, pc, pos, blocks_to_read, skipped,
                  safe_to_skip, group_hold, group_hold_value, groups, color_blocks, last, result >>

\* the locals after an iteration, and the return of its error
Step(branch, n) ==
  /\ n.last = branch
  /\ SetLocals(n)
  /\ group_ends' = IF branch = "group_end" /\ n.err = "" THEN group_ends \cup {n.pos} ELSE group_ends
  /\ group_starts' = IF branch = "group_start" /\ n.err = "" THEN group_starts \cup {n.pos} ELSE group_starts
  /\ IF n.err # ""
       THEN Return(Returned(FALSE, n.err, << >>, << >>))
       ELSE pc' = pc /\ result' = result

\* read_ase is at the head of the loop body and the source can answer its read
CanIterate ==
  /\ pc = "loop"
  /\ blocks_to_read > 0
  /\ pos < Len(ase) \/ closed

\* lib.rs:94: the source ends where a tag is due
TagEof ==
  /\ CanIterate
  /\ Step("tag_eof", LoopIter(ase, Cur))
  /\ UNCHANGED << origin, groups_in, colors_in, ase, closed >>

\* lib.rs:97-100: a zero word after a GroupEnd is passed over
SkipPadding ==
  /\ CanIterate
  /\ Step("skip", LoopIter(ase, Cur))
  /\ UNCHANGED << origin, groups_in, colors_in, ase, closed >>

\* lib.rs:102: the tag names no block type
UnknownTag ==
  /\ CanIterate
  /\ Step("unknown_tag", LoopIter(ase, Cur))
  /\ UNCHANGED << origin, groups_in, colors_in, ase, closed >>

\* lib.rs:104-106: a built group is held and the tag is not GroupEnd
ExpectGroupEnd ==
  /\ CanIterate
  /\ Step("expect_group_end", LoopIter(ase, Cur))
  /\ UNCHANGED << origin, groups_in, colors_in, ase, closed >>

\* lib.rs:116-142: a GroupStart block
ReadGroupStart ==
  /\ CanIterate
  /\ Step("group_start", LoopIter(ase, Cur))
  /\ UNCHANGED << origin, groups_in, colors_in, ase, closed >>

\* lib.rs:111-114, 144-152: a GroupEnd block
ReadGroupEnd ==
  /\ CanIterate
  /\ Step("group_end", LoopIter(ase, Cur))
  /\ UNCHANGED << origin, groups_in, colors_in, ase, closed >>

\* lib.rs:116-123, 153-162: a ColorEntry block
ReadColorEntry ==
  /\ CanIterate
  /\ Step("color_entry", LoopIter(ase, Cur))
  /\ UNCHANGED << origin, groups_in, colors_in, ase, closed >>

\* lib.rs:168-178
LoopExit ==
  /\ pc = "loop"
  /\ blocks_to_read = 0
  /\ Return(PostLoop(Cur))
  /\ groups' = IF group_hold = HoldingBuilding THEN Append(groups, group_hold_value) ELSE groups
  /\ UNCHANGED << origin, groups_in, colors_in, group_ends, group_starts, ase, closed, pos, blocks_to_read, skipped,
                  safe_to_skip, group_hold, group_hold_value, color_blocks, last >>

Next ==
  \/ CreateAse
  \/ ReadSignature
  \/ ReadVersion
  \/ ReadBlockCount
  \/ SourceSupplies
  \/ SourceEnds
  \/ TagEof
  \/ SkipPadding
  \/ UnknownTag
  \/ ExpectGroupEnd
  \/ ReadGroupStart
  \/ ReadGroupEnd
  \/ ReadColorEntry
  \/ LoopExit

Spec == Init /\ [][Next]_vars

\* read_ase runs on: a call that can take a step takes one (the source
\* answers every read, with bytes or with its end). This is WF_vars(Next)
\* with ENABLED <<Next>>_vars written as pc # "done", its value in every state
\* from which a step exists (C26 checks that one exists wherever pc # "done").
LiveSpec == Spec /\ ([]<>(pc = "done") \/ []<><<Next>>_vars)

(***************************************************************************)
(* The parsers on their own: ColorValue::try_from, ColorBlock::parse and   *)
(* Group::parse applied to byte slices of every shape, whole and cut short.*)
(***************************************************************************)
\* bytes that follow the channels of a colour value
MaxTrail == 2

\* every prefix of a byte sequence, the empty one and the whole included
Prefixes(s) == {SubSeq(s, 1, k) : k \in 0..Len(s)}

\* four channels: 0.5, 0.3, 0.1, 1.0
Channels16 == BE32(1056964608) \o BE32(1050253722) \o BE32(1036831949) \o BE32(1065353216)

\* "RGBA": a tag that names no colour model
UnknownColorTag == << 82, 71, 66, 65 >>

\* the slices handed to ColorValue::try_from
ColorValueInputs ==
  UNION {Prefixes(tag \o Channels16 \o [i \in 1..MaxTrail |-> 255]) :
           tag \in {TagCMYK, TagRGB, TagLAB, TagGray, UnknownColorTag}}

\* the colours whose name-length field ColorBlock::write computes
LongNameColors ==
  {ColorBlock(<< >> \o [i \in 1..n |-> 97], Gray(1056964608), "Normal") :
     n \in {0, 4, 65534, 65535, 65536}}

\* a name field: the u16 name length (units + 1), the units, the terminator
NameFieldOfUnits(units) == write_u16(write_u16_all(write_u16(<< >>, Len(units) + 1), units), 0)

\* names that decode: "", "n" and one surrogate pair
GoodUnits == {<< >>, << 110 >>, << 55357, 56832 >>}

\* names that do not: a lone low surrogate (it_returns_error_on_invalid_utf_16),
\* a lone high surrogate, a high surrogate followed by a letter
BadUnits == {<< 56320 >>, << 55357 >>, << 55357, 110 >>}

\* colour values as written, tag and channels, that decode
KnownColorFields == {TagGray \o BE32(1056964608), TagRGB \o SubSeq(Channels16, 1, 12)}

\* complete payloads of a colour block: a name, a colour value (one with an
\* unknown tag among them), the two bytes of the colour type
ColorBlockPayloads ==
  {NameFieldOfUnits(u) \o c \o << hi, lo >> :
     u \in GoodUnits \cup BadUnits,
     c \in KnownColorFields \cup {UnknownColorTag \o BE32(1056964608)},
     hi \in {0, 1}, lo \in {0, 1, 2, 3, 28}}

\* the slices ColorBlock::parse is applied to: the payloads, cut short at every
\* byte or followed by more bytes, and one with name length 0
ColorBlockInputs ==
  UNION {Prefixes(b \o [i \in 1..MaxTrail |-> 255]) : b \in ColorBlockPayloads}
    \cup {<< 0, 0 >> \o TagGray \o BE32(1056964608) \o << 0, 2 >>}

\* a file of one top-level ColorEntry block with the given payload
OneColorFile(payload) ==
  write_slice(write_u32(write_u16(Header(FILE_SIGNATURE, VERSION, 1), BlockTypeTag(ColorEntry)),
                        Len(payload)), payload)

\* the most items that follow the name in a group payload
MaxItems == 2

\* payloads of the colours embedded in a group payload
EmbeddedPayloads ==
  {NameFieldOfUnits(<< >>) \o TagGray \o BE32(1056964608) \o << 0, 2 >>,
   NameFieldOfUnits(<< 110 >>) \o TagRGB \o SubSeq(Channels16, 1, 12) \o << 0, 0 >>}

\* an embedded colour block: the ColorEntry tag, a declared length, the payload
EmbeddedColor(payload, declared) ==
  write_slice(write_u32(write_u16(<< >>, BlockTypeTag(ColorEntry)), declared), payload)

\* what can follow the name: colour blocks whose declared length is exact, past
\* the end (it_returns_block_on_invalid_block_length) or too short
\* (it_returns_error_on_invalid_block_length), the other tags, a tag that names
\* no block type (it_returns_error_on_invalid_block_type), a zero word, a stray
\* byte, a ColorEntry tag with half a length, a colour block that does not decode
GroupItems ==
  {EmbeddedColor(b, declared) :
     b \in EmbeddedPayloads, declared \in {14, 24, 130, 0, 2, 13}}
    \cup {BE16(BlockTypeTag(GroupStart)), BE16(BlockTypeTag(GroupEnd)),
          << 0, 255 >>, << 0, 0 >>, << 7 >>,
          BE16(BlockTypeTag(ColorEntry)) \o << 0, 0 >>,
          EmbeddedColor(NameFieldOfUnits(<< >>) \o UnknownColorTag \o BE32(1056964608) \o << 0, 2 >>, 14)}

\* the byte strings of up to n items
RECURSIVE ItemStrings(_)
ItemStrings(n) ==
  IF n = 0 THEN {<< >>}
  ELSE {<< >>} \cup {i \o rest : i \in GroupItems, rest \in ItemStrings(n - 1)}

\* the slices Group::parse is applied to: a name and items, and slices whose
\* name cannot be read
GroupInputs ==
  {NameFieldOfUnits(u) \o items : u \in {<< >>, << 103 >>}, items \in ItemStrings(MaxItems)}
    \cup {<< >>, << 0 >>, << 0, 5, 0, 103 >>, NameFieldOfUnits(<< 56320 >>)}

\* a file of one group as Group::write lays it out: one counted block, the
\* GroupStart with the given payload, the GroupEnd tag
OneGroupFile(payload) ==
  write_u16(write_slice(write_u32(write_u16(Header(FILE_SIGNATURE, VERSION, 1),
                                            BlockTypeTag(GroupStart)),
                                  Len(payload)), payload),
            BlockTypeTag(GroupEnd))

\* the block counts a header can declare, the largest of u32 among them
CountFields ==
  {<< 0, 0, 0, 0 >>, << 0, 0, 0, 1 >>, << 0, 0, 0, 2 >>, << 0, 1, 0, 0 >>,
   << 255, 255, 255, 254 >>, << 255, 255, 255, 255 >>}

\* files whose blocks are those create_ase writes for up to two groups and
\* colours, under each of the block counts
CountedFiles ==
  {SubSeq(create_ase(gc[1], gc[2]), 1, 8) \o n
     \o SubSeq(create_ase(gc[1], gc[2]), 13, Len(create_ase(gc[1], gc[2]))) :
     gc \in {e \in EncInputs : Len(e[1]) + Len(e[2]) <= 2}, n \in CountFields}

\* the function is applied to the slice `ase`; its value is `result`
FnInit ==
  /\ InitLocals
  /\ groups_in = << >>
  /\ closed = TRUE
  /\ pc = "call"
  /\ \/ origin = "ColorValue::try_from" /\ ase \in ColorValueInputs /\ colors_in = << >>
     \/ origin = "ColorBlock::write" /\ ase = << >> /\ \E c \in LongNameColors : colors_in = << c >>
     \/ origin = "ColorBlock::parse" /\ ase \in ColorBlockInputs /\ colors_in = << >>
     \/ origin = "Group::parse" /\ ase \in GroupInputs /\ colors_in = << >>
     \/ /\ origin = "read_ase"
        /\ ase \in {OneColorFile(b) : b \in ColorBlockPayloads} \cup {OneGroupFile(b) : b \in GroupInputs}
        /\ colors_in = << >>
     \/ /\ origin = "blocks_to_read"
        /\ ase \in CountedFiles
        /\ colors_in = << >>

\* what a call leaves alone
FnUnchanged ==
  UNCHANGED << origin, groups_in, colors_in, ase, closed, pos, blocks_to_read, skipped,
               safe_to_skip, group_hold, group_hold_value, groups, color_blocks, last,
               group_ends, group_starts >>

\* ColorValue::try_from(&ase[..])
CallColorValueTryFrom ==
  /\ pc = "call" /\ origin = "ColorValue::try_from"
  /\ result' = ColorValue_try_from(ase)
  /\ pc' = "done"
  /\ FnUnchanged

\* the first fields ColorBlock::write puts out (color_block.rs:40-43): the tag,
\* the block length and the name length, in a build with or without overflow
\* checks; `wrapped` tells that a sum left its width
CallColorBlockWrite ==
  /\ pc = "call" /\ origin = "ColorBlock::write"
  /\ \E checks \in BOOLEAN :
       result' =
         IF checks /\ U16Add(StrLen(colors_in[1].name) % U16Mod, 1).overflow
           THEN [ok |-> FALSE, err |-> "panic", val |-> << >>, wrapped |-> TRUE]
           ELSE [ok |-> TRUE, err |-> "",
                 val |-> write_u16(write_u32(write_u16(<< >>, BlockTypeTag(ColorEntry)),
                                             ColorBlock_calculate_length(colors_in[1])),
                                   NameLengthField(colors_in[1].name)),
                 wrapped |-> U16Add(StrLen(colors_in[1].name) % U16Mod, 1).overflow]
  /\ pc' = "done"
  /\ FnUnchanged

CallColorBlockParse ==
  /\ pc = "call" /\ origin = "ColorBlock::parse"
  /\ result' = ColorBlock_parse(ase)
  /\ pc' = "done"
  /\ FnUnchanged

CallGroupParse ==
  /\ pc = "call" /\ origin = "Group::parse"
  /\ result' = Group_parse(ase)
  /\ pc' = "done"
  /\ FnUnchanged

CallReadAse ==
  /\ pc = "call" /\ origin = "read_ase"
  /\ result' = read_ase(ase)
  /\ pc' = "done"
  /\ FnUnchanged

\* read_ase(&ase[..]) in a build with overflow checks and in one without
CallReadAseCounted ==
  /\ pc = "call" /\ origin = "blocks_to_read"
  /\ \E checks \in BOOLEAN : result' = read_ase_u32(ase, checks)
  /\ pc' = "done"
  /\ FnUnchanged

FnNext ==
  \/ CallReadAseCounted
  \/ CallColorValueTryFrom
  \/ CallColorBlockWrite
  \/ CallColorBlockParse
  \/ CallGroupParse
  \/ CallReadAse

FnSpec == FnInit /\ [][FnNext]_vars

(***************************************************************************)
(* The claims.                                                             *)
(***************************************************************************)
\* read_ase has returned
Done == pc = "done"

\* a loop iteration is due and the source holds the tag it reads
AtTag == pc = "loop" /\ blocks_to_read > 0 /\ pos + 2 <= Len(ase)

\* the tag the next iteration reads
NextTag == 256 * ase[pos + 1] + ase[pos + 2]

\* the next iteration passes over a zero word (lib.rs:97)
Padded == NextTag = 0 /\ skipped < 2 /\ safe_to_skip

\* the length field and the payload of the block whose tag is next
BlockLengthAt == FromBE32(SubSeq(ase, pos + 3, pos + 6))
PayloadAt == SubSeq(ase, pos + 7, pos + 6 + BlockLengthAt)
WholeBlock == pos + 6 <= Len(ase) /\ pos + 6 + BlockLengthAt <= Len(ase)

\* the concatenation of a sequence of byte sequences
RECURSIVE Flatten(_)
Flatten(seqs) == IF seqs = << >> THEN << >> ELSE Head(seqs) \o Flatten(Tail(seqs))

\* C1: round trip: read_ase(create_ase(groups, colors)) returns
\* Ok((groups, colors)), for every list of groups and of top-level colours.
C1_RoundTrip ==
  (origin = "create_ase" /\ Done) => result = Returned(TRUE, "", groups_in, colors_in)

\* C2: create_ase writes exactly "ASEF", the u32 0x00010000, the u32 count
\* len(groups) + len(colors), the encoding of every group in order, then the
\* encoding of every top-level colour in order, and nothing else; a single
\* Gray(0.5) colour named "name" gives the documented 40 bytes.
C2_FileLayout ==
  (origin = "create_ase" /\ pc # "create") =>
    /\ ase = << 65, 83, 69, 70 >> \o << 0, 1, 0, 0 >>
               \o << 0, 0, 0, Len(groups_in) + Len(colors_in) >>
               \o Flatten([i \in 1..Len(groups_in) |-> Group_write(groups_in[i], << >>)])
               \o Flatten([i \in 1..Len(colors_in) |-> ColorBlock_write(colors_in[i], << >>)])
    /\ (groups_in = << >> /\ colors_in = << cGray >>) =>
         ase = << 65, 83, 69, 70, 0, 1, 0, 0, 0, 0, 0, 1, 0, 1, 0, 0, 0, 22, 0, 5, 0, 110,
                  0, 97, 0, 109, 0, 101, 0, 0, 71, 114, 97, 121, 63, 0, 0, 0, 0, 2 >>

\* a file of one group that holds a colour, followed by a top-level colour
C2_Witness ==
  /\ origin = "create_ase" /\ pc # "create"
  /\ Len(groups_in) = 1 /\ Len(groups_in[1].blocks) = 1 /\ Len(colors_in) = 1

\* C3: a wrong signature gives Invalid(FileSignature) whatever the version
\* bytes are, a right signature with a wrong version gives Invalid(FileVersion);
\* in both cases nothing after the checked field is read and no group or
\* colour is returned.
C3_HeaderValidation ==
  /\ (pc \notin {"create", "signature"} /\ Len(ase) >= 4
        /\ SubSeq(ase, 1, 4) # << 65, 83, 69, 70 >>) =>
       /\ Done /\ result = Returned(FALSE, ErrFileSignature, << >>, << >>)
       /\ pos = 4 /\ last = "none" /\ groups = << >> /\ color_blocks = << >>
  /\ (pc \notin {"create", "signature", "version"} /\ Len(ase) >= 8
        /\ SubSeq(ase, 1, 4) = << 65, 83, 69, 70 >>
        /\ SubSeq(ase, 5, 8) # << 0, 1, 0, 0 >>) =>
       /\ Done /\ result = Returned(FALSE, ErrFileVersion, << >>, << >>)
       /\ pos = 8 /\ last = "none" /\ groups = << >> /\ color_blocks = << >>

\* a header with a wrong signature and a wrong version was refused for its signature
C3_Witness ==
  /\ Done /\ result.err = ErrFileSignature
  /\ Len(ase) >= 8 /\ SubSeq(ase, 5, 8) # << 0, 1, 0, 0 >>

\* C4: a block tag that is none of 0x0001, 0xC001, 0xC002 and is not passed
\* over as padding makes read_ase return BlockTypeError.
C4_UnknownTag ==
  [][(AtTag /\ NextTag \notin {1, 49153, 49154} /\ ~Padded /\ pos' # pos) =>
       (pc' = "done" /\ result' = Returned(FALSE, ErrBlockType, << >>, << >>))]_vars

\* C5: a GroupStart that already holds a colour and is the last block of the
\* input, the source ending with no GroupEnd, makes read_ase return
\* Invalid(GroupEnd).
C5_UnterminatedBuiltGroup ==
  (Done /\ group_hold = HoldingBuilt /\ closed /\ pos = Len(ase)) =>
    result = Returned(FALSE, ErrGroupEnd, << >>, << >>)

\* C6: when the block count is exhausted while a group is being built, read_ase
\* returns Ok with the held group as the last group; the held group starts
\* with no colour and holds exactly the ColorEntry blocks read since, in order.
C6_LenientEnd ==
  [][/\ (pc = "loop" /\ blocks_to_read = 0 /\ group_hold = HoldingBuilding /\ pc' = "done") =>
          result' = Returned(TRUE, "", Append(groups, group_hold_value), color_blocks)
     /\ (group_hold # HoldingBuilding /\ group_hold' = HoldingBuilding) =>
          group_hold_value'.blocks = << >>
     /\ (group_hold = HoldingBuilding /\ group_hold' = HoldingBuilding) =>
          IF AtTag /\ NextTag = 1 /\ pos' # pos /\ pc' = "loop"
            THEN group_hold_value' =
                   [group_hold_value EXCEPT !.blocks = Append(@, ColorBlock_parse(PayloadAt).val)]
            ELSE group_hold_value' = group_hold_value]_vars

\* the count ran out after a name-only GroupStart and two colours
C6_Witness ==
  /\ Done /\ result.ok /\ blocks_to_read = 0 /\ group_hold = HoldingBuilding
  /\ Len(group_hold_value.blocks) = 2
  /\ result.groups[Len(result.groups)] = group_hold_value

\* `src` with k zero words inserted after its first e bytes
InsertZeroWords(src, e, k) ==
  SubSeq(src, 1, e) \o [i \in 1..(2 * k) |-> 0] \o SubSeq(src, e + 1, Len(src))

\* the number of zero words of `src` that follow its first e bytes
RECURSIVE ZeroWordsAt(_, _)
ZeroWordsAt(src, e) ==
  IF e + 2 <= Len(src) /\ SubSeq(src, e + 1, e + 2) = << 0, 0 >>
    THEN 1 + ZeroWordsAt(src, e + 2) ELSE 0

\* C7 as stated: for an input read_ase decodes, one or two zero words inserted
\* after a GroupEnd tag that further counted blocks follow leave the result
\* unchanged.
C7_PaddingAnywhere ==
  (Done /\ result.ok) =>
    \A e \in group_ends : \A k \in 1..2 :
      (e < pos) => read_ase(InsertZeroWords(ase, e, k)) = result

\* C7: for an input read_ase decodes, one or two zero words inserted after a
\* GroupEnd tag that further counted blocks follow leave the result unchanged,
\* provided the zero words after that tag, the inserted ones included, are at
\* most two.
C7_PaddingTolerance ==
  (Done /\ result.ok) =>
    \A e \in group_ends : \A k \in 1..2 :
      (e < pos /\ ZeroWordsAt(ase, e) + k <= 2) =>
        read_ase(InsertZeroWords(ase, e, k)) = result

\* a decoded input with a group, a GroupEnd with no zero word after it, and a
\* counted block after that
C7_Witness ==
  /\ Done /\ result.ok /\ result.groups # << >>
  /\ \E e \in group_ends : e < pos /\ ZeroWordsAt(ase, e) = 0

\* the file of one group in the layout of lib.rs:377-425: a GroupStart whose
\* length covers the name only, the colours as separate blocks, a GroupEnd,
\* and a block count that counts each of them
NonConformantFile(group) ==
  << 65, 83, 69, 70 >> \o << 0, 1, 0, 0 >> \o << 0, 0, 0, Len(group.blocks) + 2 >>
    \o NameOnlyGroupStart(group.name)
    \o Flatten([i \in 1..Len(group.blocks) |-> ColorBlock_write(group.blocks[i], << >>)])
    \o << 192, 2 >>

\* C8: the file of a group in the non-conformant layout decodes to the same
\* (groups, colors) as the file create_ase writes for that group.
C8_LayoutEquivalence ==
  (origin = "create_ase" /\ Done /\ Len(groups_in) = 1 /\ colors_in = << >>) =>
    read_ase(NonConformantFile(groups_in[1])) = result

\* C9: while a built group is held, a ColorEntry or GroupStart tag makes
\* read_ase return Invalid(GroupEnd) with nothing read after the tag.
C9_BuiltGroupMustEnd ==
  [][(AtTag /\ group_hold = HoldingBuilt /\ NextTag \in {1, 49153} /\ pos' # pos) =>
       /\ pc' = "done" /\ result' = Returned(FALSE, ErrGroupEnd, << >>, << >>)
       /\ pos' = pos + 2]_vars

\* a whole ColorEntry block after a built group was refused at its tag
C9_Witness ==
  /\ Done /\ result.err = ErrGroupEnd /\ group_hold = HoldingBuilt
  /\ pos < Len(ase) /\ SubSeq(ase, pos - 1, pos) = << 0, 1 >>

\* C10: a GroupEnd tag read while no group is held, and a GroupStart whose
\* payload decodes while a group is held, make read_ase return Invalid(GroupEnd).
C10_BalancedMarkers ==
  [][/\ (AtTag /\ group_hold = Empty /\ NextTag = 49154 /\ pos' # pos) =>
          (pc' = "done" /\ result' = Returned(FALSE, ErrGroupEnd, << >>, << >>))
     /\ (AtTag /\ group_hold \in {HoldingBuilding, HoldingBuilt} /\ NextTag = 49153
           /\ WholeBlock /\ Group_parse(PayloadAt).ok /\ pos' # pos) =>
          (pc' = "done" /\ result' = Returned(FALSE, ErrGroupEnd, << >>, << >>))]_vars

\* a GroupStart was read in full and refused while a group was being built
C10_Witness ==
  /\ Done /\ result.err = ErrGroupEnd /\ group_hold = HoldingBuilding
  /\ last = "group_start" /\ group_ends = {}

\* C13: ColorValue::try_from selects the variant by the first 4 bytes and reads
\* 16 ("CMYK"), 12 ("RGB ", "LAB ") or 4 ("Gray") payload bytes; another tag
\* gives ColorFormat; fewer than 4 bytes, or fewer payload bytes than the
\* variant needs, give InputDataParseError; bytes after the payload are ignored.
C13_ColorValueDecode ==
  (origin = "ColorValue::try_from" /\ Done) =>
    IF Len(ase) < 4 THEN result = Err(ErrInputDataParse)
    ELSE CASE SubSeq(ase, 1, 4) = << 67, 77, 89, 75 >> ->
                IF Len(ase) < 4 + 16 THEN result = Err(ErrInputDataParse)
                ELSE result = Ok([kind |-> "Cmyk",
                                  ch |-> << FromBE32(SubSeq(ase, 5, 8)), FromBE32(SubSeq(ase, 9, 12)), FromBE32(SubSeq(ase, 13, 16)), FromBE32(SubSeq(ase, 17, 20)) >>])
           [] SubSeq(ase, 1, 4) = << 82, 71, 66, 32 >> ->
                IF Len(ase) < 4 + 12 THEN result = Err(ErrInputDataParse)
                ELSE result = Ok([kind |-> "Rgb", ch |-> << FromBE32(SubSeq(ase, 5, 8)), FromBE32(SubSeq(ase, 9, 12)), FromBE32(SubSeq(ase, 13, 16)) >>])
           [] SubSeq(ase, 1, 4) = << 76, 65, 66, 32 >> ->
                IF Len(ase) < 4 + 12 THEN result = Err(ErrInputDataParse)
                ELSE result = Ok([kind |-> "Lab",
                                  ch |-> << F32Mul100(FromBE32(SubSeq(ase, 5, 8))), FromBE32(SubSeq(ase, 9, 12)), FromBE32(SubSeq(ase, 13, 16)) >>])
           [] SubSeq(ase, 1, 4) = << 71, 114, 97, 121 >> ->
                IF Len(ase) < 4 + 4 THEN result = Err(ErrInputDataParse)
                ELSE result = Ok([kind |-> "Gray", ch |-> << FromBE32(SubSeq(ase, 5, 8)) >>])
           [] OTHER -> result = Err(ErrColorFormat)

\* an RGB value was decoded from a slice with bytes after its 12 payload bytes
C13_Witness ==
  /\ origin = "ColorValue::try_from" /\ Done /\ result.ok /\ result.val.kind = "Rgb"
  /\ Len(ase) > 4 + 12

\* the source starts with "ASEF", 0x00010000 and a block count of 0
EmptyHeader ==
  Len(ase) >= 12 /\ SubSeq(ase, 1, 12) = << 65, 83, 69, 70, 0, 1, 0, 0, 0, 0, 0, 0 >>

\* C12: on an input that starts with "ASEF", 0x00010000 and block count 0,
\* read_ase returns Ok with no group and no colour and reads no block,
\* whatever bytes follow the header.
C12_EmptyFile ==
  (EmptyHeader /\ pc \notin {"create", "signature", "version", "count"}) =>
    /\ pos = 12 /\ last = "none" /\ blocks_to_read = 0
    /\ Done => result = Returned(TRUE, "", << >>, << >>)
    /\ \A rest \in Prefixes(ColorBlock_write(cGray, << >>)) \cup {<< 0, 2 >>, << 192, 2 >>} :
         read_ase(ase \o rest) = Returned(TRUE, "", << >>, << >>)

\* read_ase has returned on a crafted 12-byte header that declares no block
C12_Witness == origin = "stream" /\ EmptyHeader /\ Done /\ result.ok

\* C11: create_ase never fails and no sum it computes leaves its width; here
\* the u16 name-length field (name length + 1) of a colour block it writes.
C11_NoOverflow ==
  (origin = "ColorBlock::write" /\ Done) => (result.ok /\ ~result.wrapped)

\* the payload of the colour block under decode: the slice given to
\* ColorBlock::parse, or what follows the header, the tag and the length in
\* the file of one ColorEntry
BlockPayload == IF origin = "read_ase" THEN SubSeq(ase, 19, Len(ase)) ELSE ase

\* the payload holds, complete, a name that decodes and a known colour value
HasNameAndColor(b) ==
  \E u \in GoodUnits, c \in KnownColorFields :
    /\ Len(b) >= Len(NameFieldOfUnits(u) \o c)
    /\ SubSeq(b, 1, Len(NameFieldOfUnits(u) \o c)) = NameFieldOfUnits(u) \o c

\* the offset just after the colour payload: (2 * name_length + 2) + 4 + payload_length
AfterColor(b) ==
  LET name_length == 256 * b[1] + b[2]
      tag == SubSeq(b, 2 * name_length + 3, 2 * name_length + 6)
  IN (2 * name_length + 2) + 4
       + (CASE tag = << 67, 77, 89, 75 >> -> 16
            [] tag = << 82, 71, 66, 32 >> -> 12
            [] tag = << 76, 65, 66, 32 >> -> 12
            [] tag = << 71, 114, 97, 121 >> -> 4)

\* C14: a colour block whose colour-type byte (the byte the decoder takes, the
\* second of the field) is outside {0, 1, 2} is rejected with ColorTypeError,
\* by ColorBlock::parse and by read_ase for a top-level ColorEntry alike;
\* 0, 1, 2 decode to Global, Spot, Normal.
C14_ColorTypeRange ==
  (/\ origin \in {"ColorBlock::parse", "read_ase"}
   /\ Done
   /\ HasNameAndColor(BlockPayload)
   /\ Len(BlockPayload) > AfterColor(BlockPayload) + 1) =>
    LET v == BlockPayload[AfterColor(BlockPayload) + 2]
        decoded == IF origin = "read_ase" THEN result.colors[1] ELSE result.val
    IN IF v \in {0, 1, 2}
         THEN /\ result.ok
              /\ origin = "read_ase" => (result.groups = << >> /\ Len(result.colors) = 1)
              /\ decoded.color_type = (CASE v = 0 -> "Global" [] v = 1 -> "Spot" [] v = 2 -> "Normal")
         ELSE ~result.ok /\ result.err = "ColorTypeError"

C14_Witness ==
  /\ origin = "read_ase" /\ Done
  /\ HasNameAndColor(BlockPayload)
  /\ BlockPayload[AfterColor(BlockPayload) + 2] = 28
  /\ result.err = "ColorTypeError"

\* complete payloads: a name that decodes, a known colour, a colour type in range
WellFormedPayloads ==
  {NameFieldOfUnits(u) \o c \o << hi, lo >> :
     u \in GoodUnits, c \in KnownColorFields, hi \in {0, 1}, lo \in {0, 1, 2}}

\* the slice ends before the end of a payload that is well formed
CutShort(b) == \E p \in WellFormedPayloads : Len(b) < Len(p) /\ b = SubSeq(p, 1, Len(b))

\* the slice holds the name length and, complete, units with an invalid surrogate sequence
HasBadName(b) ==
  \E u \in BadUnits :
    /\ Len(b) >= 2 + 2 * Len(u)
    /\ SubSeq(b, 1, 2 + 2 * Len(u)) = BE16(Len(u) + 1) \o write_u16_all(<< >>, u)

\* C15: ColorBlock::parse of a payload that ends before a field it needs (name
\* length, name units, colour tag and channels, colour type) returns
\* InputDataParseError; a name with an invalid surrogate sequence returns
\* UTF16Error; neither is Ok.
C15_TruncatedOrBadName ==
  (origin = "ColorBlock::parse" /\ Done) =>
    /\ CutShort(ase) => (~result.ok /\ result.err = "InputDataParseError")
    /\ HasBadName(ase) => (~result.ok /\ result.err = "UTF16Error")

C15_Witness ==
  /\ origin = "ColorBlock::parse" /\ Done
  /\ HasNameAndColor(ase) /\ CutShort(ase)
  /\ Len(ase) = AfterColor(ase) + 1
  /\ result.err = "InputDataParseError"

\* the outcome of ColorBlock::parse when the colour type is the byte at `offset`
TypeTakenAt(offset) ==
  IF Len(ase) <= offset THEN ~result.ok /\ result.err = "InputDataParseError"
  ELSE IF ase[offset + 1] \in {0, 1, 2}
    THEN /\ result.ok
         /\ result.val.color_type =
              (CASE ase[offset + 1] = 0 -> "Global"
                 [] ase[offset + 1] = 1 -> "Spot"
                 [] ase[offset + 1] = 2 -> "Normal")
    ELSE ~result.ok /\ result.err = "ColorTypeError"

\* C20: ColorBlock::parse takes the colour type from the single byte
\* immediately after the colour payload, at offset
\* (2 * name_length + 2) + 4 + payload_length, and from no other byte.
C20_TypeByteAfterPayload ==
  (origin = "ColorBlock::parse" /\ Done /\ HasNameAndColor(ase)) => TypeTakenAt(AfterColor(ase))

\* C20 as the code has it: the colour type is the byte one further on, at offset
\* (2 * name_length + 2) + 4 + payload_length + 1, the second byte of the
\* two-byte colour-type field; the byte immediately after the colour payload
\* is not examined.
C20_TypeByteSecond ==
  (origin = "ColorBlock::parse" /\ Done /\ HasNameAndColor(ase)) => TypeTakenAt(AfterColor(ase) + 1)

C20_Witness ==
  /\ origin = "ColorBlock::parse" /\ Done /\ HasNameAndColor(ase)
  /\ Len(ase) > AfterColor(ase) + 1
  /\ ase[AfterColor(ase) + 1] = 1
  /\ ase[AfterColor(ase) + 2] = 2
  /\ result.ok /\ result.val.color_type = "Normal"

\* the slice starts with a group name that can be read
NameReadable(b) ==
  \E u \in {<< >>, << 103 >>} :
    Len(b) >= Len(NameFieldOfUnits(u)) /\ SubSeq(b, 1, Len(NameFieldOfUnits(u))) = NameFieldOfUnits(u)

\* a slice without its first k bytes
Drop(b, k) == IF k >= Len(b) THEN << >> ELSE SubSeq(b, k + 1, Len(b))

\* the name field of a group payload, and what follows it
NamePart(b) == SubSeq(b, 1, 2 * (256 * b[1] + b[2]) + 2)
AfterName(b) == Drop(b, 2 * (256 * b[1] + b[2]) + 2)

\* the declared length of the block whose tag starts the slice
DeclaredOf(b) == FromBE32(SubSeq(b, 3, 6))

\* the outcome r of decoding the rest of a group, with the colour c before it
Prepend(c, r) == IF r.ok THEN [r EXCEPT !.val.blocks = << c >> \o @] ELSE r

\* C17: Group::parse never fails once the name is read: it returns Ok however
\* the bytes after the name look.
C17_NeverFails ==
  (origin = "Group::parse" /\ Done /\ NameReadable(ase)) => result.ok

\* C17 as the code has it: after the name (and after each embedded colour),
\* Group::parse returns Ok with the colours decoded so far when fewer than 2
\* bytes remain, when the next tag is GroupStart or GroupEnd, or when the next
\* colour block does not decode; it fails when the next tag names no block
\* type, and with InputDataParseError when a ColorEntry tag is followed by
\* fewer than 4 bytes.
C17_GroupStops ==
  (origin = "Group::parse" /\ Done /\ NameReadable(ase)) =>
    IF Len(AfterName(ase)) < 2 \/ FromBE16(AfterName(ase)) \in {49153, 49154}
      THEN result.ok /\ result.val.blocks = << >>
    ELSE IF FromBE16(AfterName(ase)) # 1
      THEN ~result.ok
    ELSE IF Len(AfterName(ase)) < 6
      THEN ~result.ok /\ result.err = "InputDataParseError"
    ELSE IF ~ColorBlock_parse(Drop(AfterName(ase), 6)).ok
      THEN result.ok /\ result.val.blocks = << >>
    ELSE result = Prepend(ColorBlock_parse(Drop(AfterName(ase), 6)).val,
                          Group_parse(NamePart(ase)
                                        \o Drop(AfterName(ase), 6 + DeclaredOf(AfterName(ase)))))

C17_Witness ==
  /\ origin = "Group::parse" /\ Done /\ NameReadable(ase)
  /\ result.ok /\ Len(result.val.blocks) = 1
  /\ Len(Drop(AfterName(ase), 6 + DeclaredOf(AfterName(ase)))) >= 6
  /\ FromBE16(Drop(AfterName(ase), 6 + DeclaredOf(AfterName(ase)))) = 1

\* C18: Group::parse returns BlockTypeError when, after the name or after an
\* embedded colour, at least 2 bytes remain and the next tag is none of the
\* three block tags; GroupStart and GroupEnd end the colour list without error.
C18_GroupUnknownTag ==
  (origin = "Group::parse" /\ Done /\ NameReadable(ase) /\ Len(AfterName(ase)) >= 2) =>
    /\ FromBE16(AfterName(ase)) \in {49153, 49154} => (result.ok /\ result.val.blocks = << >>)
    /\ FromBE16(AfterName(ase)) \notin {1, 49153, 49154} =>
         (~result.ok /\ result.err = "BlockTypeError")

\* the first item after the name is a colour block that decodes, whatever its
\* declared length
FirstColorDecodes(b) ==
  /\ NameReadable(b)
  /\ \E c \in EmbeddedPayloads :
       /\ Len(AfterName(b)) >= 6 + Len(c)
       /\ FromBE16(AfterName(b)) = 1
       /\ SubSeq(AfterName(b), 7, 6 + Len(c)) = c

\* C19: in Group::parse the declared length of an embedded colour block only
\* locates the next tag: the colour is decoded from all bytes after the length
\* field, the next tag is read at (start of the colour payload + declared
\* length); a declared length past the end of the bytes ends the list with
\* the colours so far, one that is too short makes the next tag be read inside
\* the colour just decoded.
C19_DeclaredLength ==
  (origin = "Group::parse" /\ Done /\ FirstColorDecodes(ase)) =>
    /\ result =
         Prepend(ColorBlock_parse(Drop(AfterName(ase), 6)).val,
                 Group_parse(NamePart(ase) \o Drop(AfterName(ase), 6 + DeclaredOf(AfterName(ase)))))
    /\ ColorBlock_parse(Drop(AfterName(ase), 6)).ok
    /\ 6 + DeclaredOf(AfterName(ase)) >= Len(AfterName(ase)) - 1 =>
         (result.ok /\ Len(result.val.blocks) = 1)
    /\ DeclaredOf(AfterName(ase)) = 2 =>
         \* the tag is the third and fourth byte of the colour payload
         /\ FromBE16(Drop(AfterName(ase), 8)) \notin {1, 49153, 49154}
         /\ ~result.ok

C19_Witness ==
  /\ origin = "Group::parse" /\ Done /\ FirstColorDecodes(ase)
  /\ DeclaredOf(AfterName(ase)) = 130
  /\ Len(AfterName(ase)) > 6 + 24
  /\ result.ok /\ Len(result.val.blocks) = 1

\* the last block read was a GroupEnd and fewer than 2 zero words have been
\* passed over since: the tag is due right after a GroupEnd tag, or after it
\* and one zero word
AfterGroupEnd ==
  \/ pos \in group_ends
  \/ pos - 2 \in group_ends /\ SubSeq(ase, pos - 1, pos) = << 0, 0 >>

\* the outcome of an iteration that finds a zero word where a tag is due:
\* passed over after a GroupEnd, with the count of blocks left, the hold state
\* and the outputs as they were, and otherwise the error `e`
ZeroWordOutcome(e) ==
  (AtTag /\ NextTag = 0 /\ pos' # pos) =>
    IF AfterGroupEnd
      THEN /\ pos' = pos + 2 /\ pc' = "loop"
           /\ UNCHANGED << blocks_to_read, group_hold, group_hold_value, groups,
                           color_blocks, result >>
      ELSE pc' = "done" /\ result' = Returned(FALSE, e, << >>, << >>)

\* C16: read_ase passes over a zero tag word only when the last block read was
\* a GroupEnd and fewer than 2 words have been passed over since; passing over
\* leaves the blocks remaining, the hold state and the outputs as they were; a
\* zero word in any other place is taken for a tag and gives BlockTypeError.
C16_ZeroWord == [][ZeroWordOutcome("BlockTypeError")]_vars

\* the name of the first block create_ase writes: the first group, or the
\* first colour when there is no group
FirstName == IF groups_in # << >> THEN groups_in[1].name ELSE colors_in[1].name

\* the number of UTF-16 code units of a name: one per character, two for a
\* character outside the basic plane
Utf16Units(name) == Len(name) + Cardinality({i \in 1..Len(name) : name[i] >= 65536})

\* C21: the u16 name-length field the encoder writes (offset 18 of the file
\* for its first block, group or colour) is the number of UTF-16 units of the
\* name plus 1, the number of 2-byte units written after it, the last 0x0000.
C21_NameLengthField ==
  (origin = "create_ase" /\ pc # "create" /\ Len(groups_in) + Len(colors_in) > 0) =>
    /\ FromBE16(SubSeq(ase, 19, 20)) = Utf16Units(FirstName) + 1
    /\ SubSeq(ase, 21 + 2 * Utf16Units(FirstName), 22 + 2 * Utf16Units(FirstName)) = << 0, 0 >>

\* the bytes of a colour block from the name-length field to the colour type:
\* 2 + 2 * (UTF-16 units of the name) + 2 + 4 + colour payload length + 2
ColorBytes(block) ==
  2 + 2 * Utf16Units(block.name) + 2 + 4
    + (CASE block.color.kind = "Cmyk" -> 16
         [] block.color.kind = "Rgb" -> 12
         [] block.color.kind = "Lab" -> 12
         [] block.color.kind = "Gray" -> 4)
    + 2

\* the bytes of a group from the name-length field up to the GroupEnd tag:
\* 2 + 2 * (UTF-16 units of the name) + 2 + the sum of (colour length + 6)
RECURSIVE GroupBytes(_)
GroupBytes(group) ==
  IF group.blocks = << >> THEN 2 + 2 * Utf16Units(group.name) + 2
  ELSE GroupBytes([group EXCEPT !.blocks = Tail(@)]) + ColorBytes(Head(group.blocks)) + 6

\* C22: the u32 length field the encoder writes for a block is the number of
\* payload bytes it then writes: for a colour block the bytes from the
\* name-length field to the colour type, for a group the bytes from the
\* name-length field up to the GroupEnd tag (here for a file of one block).
C22_LengthField ==
  (origin = "create_ase" /\ pc # "create" /\ Len(groups_in) + Len(colors_in) = 1) =>
    IF groups_in # << >>
      THEN /\ FromBE32(SubSeq(ase, 15, 18)) = GroupBytes(groups_in[1])
           /\ FromBE32(SubSeq(ase, 15, 18)) = Len(ase) - 18 - 2
      ELSE /\ FromBE32(SubSeq(ase, 15, 18)) = ColorBytes(colors_in[1])
           /\ FromBE32(SubSeq(ase, 15, 18)) = Len(ase) - 18

\* C23: the capacity create_ase reserves before writing is never smaller than
\* the number of bytes it then writes.
C23_CapacitySuffices ==
  (origin = "create_ase" /\ pc # "create") => Capacity(groups_in, colors_in) >= Len(ase)

\* the file under decode holds one group: its first tag is GroupStart
IsGroupFile == origin = "read_ase" /\ SubSeq(ase, 13, 14) = << 192, 1 >>

\* the payload of that GroupStart block (the GroupEnd tag ends the file)
GroupPayload == SubSeq(ase, 19, Len(ase) - 2)

\* the first block embedded in a group payload is a ColorEntry that does not decode
FirstEmbeddedFails(b) ==
  /\ NameReadable(b)
  /\ Len(AfterName(b)) >= 6
  /\ FromBE16(AfterName(b)) = 1
  /\ ~ColorBlock_parse(Drop(AfterName(b), 6)).ok

\* C24: read_ase returns Ok only if every colour block it met, top-level or
\* embedded in a GroupStart payload, decoded: no failing decode step is
\* passed over.
C24_NothingSwallowed ==
  (origin = "read_ase" /\ Done /\ result.ok) => ~(IsGroupFile /\ FirstEmbeddedFails(GroupPayload))

\* C24 as the code has it: a failing decode step of read_ase itself (the
\* decode of a top-level colour block, the decode of a group payload) makes
\* the call return that error; inside a group payload Group::parse passes
\* over an embedded colour block that does not decode, that block and what
\* follows it being dropped from the group, and read_ase returns Ok.
C24_ErrorsReturned ==
  (origin = "read_ase" /\ Done) =>
    IF IsGroupFile
      THEN /\ result =
                IF Group_parse(GroupPayload).ok
                  THEN Returned(TRUE, "", << Group_parse(GroupPayload).val >>, << >>)
                  ELSE Returned(FALSE, Group_parse(GroupPayload).err, << >>, << >>)
           /\ FirstEmbeddedFails(GroupPayload) =>
                (result.ok /\ result.groups[1].blocks = << >>)
      ELSE result =
             IF ColorBlock_parse(BlockPayload).ok
               THEN Returned(TRUE, "", << >>, << ColorBlock_parse(BlockPayload).val >>)
               ELSE Returned(FALSE, ColorBlock_parse(BlockPayload).err, << >>, << >>)

C24_Witness ==
  /\ Done /\ IsGroupFile /\ FirstEmbeddedFails(GroupPayload)
  /\ Len(GroupPayload) > 30
  /\ result.ok /\ result.groups[1].blocks = << >>

\* the iteration that reads the block with tag `tag` and goes on without error
ReadsBlock(tag) == AtTag /\ NextTag = tag /\ pos' # pos /\ pc' = "loop"

\* C25: a ColorEntry read in state Empty is appended to the top-level colours,
\* one read in state HoldingBuilding to the held group's colours and not to
\* the top-level list; a GroupEnd appends the held group to the groups; on
\* success the result is these lists, so top-level colours, each group's
\* colours and the groups are in the order they were read.
C25_RoutingAndOrder ==
  [][/\ ReadsBlock(1) =>
          /\ group_hold \in {Empty, HoldingBuilding}
          /\ groups' = groups
          /\ IF group_hold = Empty
               THEN /\ color_blocks' = Append(color_blocks, ColorBlock_parse(PayloadAt).val)
                    /\ group_hold_value' = group_hold_value
               ELSE /\ color_blocks' = color_blocks
                    /\ group_hold_value' =
                         [group_hold_value EXCEPT !.blocks = Append(@, ColorBlock_parse(PayloadAt).val)]
     /\ ReadsBlock(49153) =>
          /\ groups' = groups /\ color_blocks' = color_blocks
          /\ group_hold_value' = Group_parse(PayloadAt).val
     /\ ReadsBlock(49154) =>
          /\ groups' = Append(groups, group_hold_value) /\ color_blocks' = color_blocks
     /\ (pc = "loop" /\ pc' = "done" /\ result'.ok) =>
          /\ result'.colors = color_blocks
          /\ result'.groups =
               IF group_hold = HoldingBuilding THEN Append(groups, group_hold_value) ELSE groups]_vars

\* a top-level colour, then a group that took the colour read after its start
C25_Witness ==
  /\ Done /\ result.ok
  /\ Len(result.colors) = 1 /\ Len(result.groups) = 1
  /\ Len(result.groups[1].blocks) = 1
  /\ group_hold = HoldingBuilding

\* a step of the call or of its source exists: the guards of the actions
Runnable ==
  \/ pc \in {"create", "signature", "version", "count"}
  \/ pc = "loop" /\ blocks_to_read = 0
  \/ Starved
  \/ /\ CanIterate
     /\ LoopIter(ase, Cur).last \in {"tag_eof", "skip", "unknown_tag", "expect_group_end",
                                      "group_start", "group_end", "color_entry"}

\* C26, the progress of the loop, for block counts that do not reach the end
\* of u32: every iteration of the block loop that goes round again, a padding
\* skip included, has consumed at least 2 bytes of the source, and every call
\* returns, also when the declared block count is larger than the number of
\* blocks the source holds.
C26_Terminates ==
  /\ [](CanIterate =>
          \/ LoopIter(ase, Cur).err # ""
          \/ LoopIter(ase, Cur).pos >= pos + 2)
  /\ [][(pc = "loop" /\ pc' = "loop" /\ ase' = ase /\ closed' = closed) => pos' >= pos + 2]_vars
  /\ [](Done \/ Runnable)
  /\ <>Done

\* the source ended with blocks still to read, after a padding skip
C26_Witness ==
  /\ origin = "stream" /\ Done
  /\ result.err = "Io" /\ last = "tag_eof"
  /\ blocks_to_read > 0 /\ skipped > 0

\* the errors of ASEError, as read_ase can return them
ASEErrors ==
  {ErrIo, ErrFileSignature, ErrFileVersion, ErrGroupEnd, ErrColorFormat, ErrUTF16,
   ErrColorType, ErrBlockType, ErrInputDataParse, ErrInvalid}

\* C26: read_ase ends every call on a finite source with Ok or with an error
\* of ASEError, whatever block count the header declares.
C26_OkOrError ==
  (origin = "blocks_to_read" /\ Done) => (result.ok \/ result.err \in ASEErrors)

\* C29: the u32 counter blocks_to_read never goes round either end of its
\* range and read_ase never panics, also when the header declares 0xFFFFFFFF
\* blocks and a group that holds its colours follows.
C29_CounterInRange ==
  (origin = "blocks_to_read" /\ Done) => (~result.wrapped /\ ~result.panicked)

\* C27: whenever a built group is held at the head of the loop or where the
\* loop ends, blocks_to_read is greater than 0; so the loop never ends with a
\* built group held, and a held built group is left only by reading a GroupEnd
\* tag or by returning an error.
C27_BuiltGroupHeld ==
  /\ []((pc = "loop" /\ group_hold = HoldingBuilt) => blocks_to_read > 0)
  /\ [][(pc = "loop" /\ pc' = "done" /\ blocks_to_read = 0) => group_hold # HoldingBuilt]_vars
  /\ [][(pc = "loop" /\ group_hold = HoldingBuilt) =>
          \/ /\ AtTag /\ NextTag = 49154
             /\ pc' = "loop" /\ pos' = pos + 2 /\ group_hold' = Empty
             /\ groups' = Append(groups, group_hold_value)
          \/ pc' = "done" /\ ~result'.ok /\ group_hold' = HoldingBuilt
          \/ pc' = "loop" /\ pos' = pos /\ group_hold' = HoldingBuilt
                          /\ blocks_to_read' = blocks_to_read]_vars

\* a built group is held and only the block counted for it is left to read
C27_Witness ==
  /\ pc = "loop" /\ group_hold = HoldingBuilt
  /\ blocks_to_read = 1 /\ Len(group_hold_value.blocks) > 0

\* C28: on every file create_ase writes, read_ase's blocks_to_read reaches 0
\* exactly when the last byte of the file has been read: all the blocks are
\* consumed and no read goes past the end of the file.
C28_CountMatchesFile ==
  (origin = "create_ase" /\ Done) =>
    /\ result.ok
    /\ blocks_to_read = 0
    /\ pos = Len(ase)

\* C30: group accounting: while read_ase has met no error, no group is held
\* exactly when as many GroupEnd as GroupStart blocks have been read, and
\* otherwise one GroupStart more; the groups pushed so far are as many as the
\* GroupEnd blocks read, each pushed once, by its GroupEnd; and a successful
\* return holds as many groups as GroupStart blocks were read.
C30_GroupAccounting ==
  /\ [](pc = "loop" =>
          /\ (group_hold = Empty) <=> (Cardinality(group_starts) = Cardinality(group_ends))
          /\ (group_hold # Empty) => (Cardinality(group_starts) = Cardinality(group_ends) + 1)
          /\ Len(groups) = Cardinality(group_ends))
  /\ []((Done /\ result.ok) => Len(result.groups) = Cardinality(group_starts))
  /\ [][(pc = "loop" /\ pc' = "loop") =>
          \/ groups' = groups /\ group_ends' = group_ends
          \/ /\ groups' = Append(groups, group_hold_value)
             /\ Cardinality(group_ends') = Cardinality(group_ends) + 1]_vars
  /\ [][(pc = "loop" /\ pc' = "done" /\ result'.ok) =>
          result'.groups = IF group_hold = HoldingBuilding
                             THEN Append(groups, group_hold_value) ELSE groups]_vars

\* two groups returned: the first closed by its GroupEnd, the second still
\* being built when the loop ended
C30_Witness ==
  /\ Done /\ result.ok
  /\ Cardinality(group_starts) = 2 /\ Cardinality(group_ends) = 1
  /\ Len(result.groups) = 2
====
